---- MODULE Spec2Model ----
(***************************************************************************)
(* Model of the audio-library analysis pipeline of                         *)
(* database/src/actions/analysis.rs: analysis_audio_library, a producer    *)
(* paging through the files without analysis rows, a bounded channel, a    *)
(* consumer spawning one analysis task per file and writing each full      *)
(* batch in one transaction; and of the rows of table media_analysis:       *)
(* insert_analysis_result, which writes one, and                           *)
(* get_centralized_analysis_result, which averages them.  Further          *)
(* sections model two overlapping runs of the pipeline on one database,    *)
(* the playlist positions of database/src/actions/playlists.rs, the cover  *)
(* art tables of database/src/actions/cover_art.rs, and process_file and   *)
(* clean_up_database of database/src/actions/metadata.rs.                  *)
(***************************************************************************)
EXTENDS Integers, Sequences, FiniteSets, TLC

MaxFiles == 4     \* file identifiers are 1..MaxFiles
MaxBatch == 2     \* batch_size ranges over 1..MaxBatch
MaxCorrupt == 1   \* files of the library whose analysis fails

MaxRows == 2      \* the rows of the averaged table have file ids 1..MaxRows
MaxValue == 2     \* descriptor values are 0..MaxValue
MaxSamples == 6   \* the signals analysed have at most MaxSamples samples
MaxEntries == 3   \* table media_file_playlists holds at most MaxEntries rows
MaxCoverFiles == 3  \* get_cover_art is asked about the files 1..MaxCoverFiles

FileIds == 1..MaxFiles

VARIABLES
    \* the database and the library on disk
    media_files,      \* ids of the rows of table media_files
    corrupt,          \* files for which analyze_audio fails
    media_analysis,   \* committed rows of table media_analysis: file id -> number of rows
    \* the caller
    prev_run,         \* the run before the current one: its batch size, and
                      \* whether it returned Ok without cancellation
    run_state,        \* "idle", "running", "returned"
    run_result,       \* value returned by the last run
    \* locals of analysis_audio_library
    batch_size,
    cancel_token,     \* TRUE once the token is cancelled
    flushed_at_cancel, \* transactions committed when the token was cancelled
    existed_ids,
    total_tasks,
    total_processed,
    \* producer
    ppc,              \* "loop", "send", "done"
    cursor,           \* value given to cursor.after, 0 before the first page
    files,            \* files of the fetched page still to send
    queue,            \* the bounded channel (tx, rx)
    tx_dropped,       \* TRUE once the sender is dropped: the channel is closed
    producer_result,
    \* consumer
    cpc,              \* "recv", "join", "begin", "insert", "remaining", "done"
    tasks,            \* file ids of the spawned tasks not yet collected
    running,          \* spawned tasks that have not finished
    finished,         \* results of the finished tasks, in completion order
    results,          \* collected results still to handle in the transaction
    task_count,
    txn_open,         \* TRUE while a transaction is open
    open_txns,        \* transactions begun on main_db and not yet committed or dropped
    txn,              \* rows inserted in the open transaction
    consumer_result,
    \* history of the current run
    store0,           \* media_analysis when the run started
    enqueued,         \* files sent to the channel, in order
    spawned,          \* files given to an analysis task, in order
    flushed,          \* one entry per committed transaction: the files of the batch
    progress,         \* arguments of the progress_callback invocations
    observed,         \* tasks in flight when the consumer saw the cancellation
    seen_cancel,      \* TRUE once the consumer saw the cancellation
    txn_failed,       \* store and flushed count when a transaction failed
    \* the rows of table media_analysis and get_centralized_analysis_result
    analysis_rows,    \* file id -> the descriptor columns of its row
    inserted_ids,     \* file ids of the rows written by insert_analysis_result
    agg_pc,           \* "idle", "loop", "done", "panicked"
    file_ids,         \* argument of get_centralized_analysis_result
    analysis_results, \* the rows loaded and not yet processed
    sum,
    count,
    agg_result,       \* the AggregatedAnalysisResult returned
    \* the analysis of one file
    an_pc,            \* "idle", "frames", "done"
    pcm,              \* the samples of the signal
    pos,              \* index of the first sample of the next frame
    nframes,          \* frames described so far
    acc,              \* sums of the descriptors over the frames
    raw,              \* the descriptors of the file
    \* two calls of analysis_audio_library at the same time
    runs,             \* per call: its position, batch size, existed_ids, cursor
    \* playlists
    playlist_entries, \* the rows of table media_file_playlists, in insertion order
    add_calls,        \* per client: its call of add_media_file_to_playlist
    appended,         \* the entries add_media_file_to_playlist inserted, in order,
                      \* each with the positions its playlist held before
    \* cover art
    cover_files,      \* file id -> cover_art_id of its media_files row, the picture
                      \* in the file, and whether the file is on the disk
    media_cover_art,  \* the rows of table media_cover_art: the id is the index
    returned_bytes,   \* file id -> the bytes get_cover_art returned for it
    last_call,        \* the last call of get_cover_art: its argument, its result,
                      \* and whether the file had a cover_art_id before
    \* the scan
    file_rows,        \* table media_files: id -> directory, file_name, file_hash,
                      \* last_modified
    metadata_rows,    \* table media_metadata: rows file_id, meta_key, meta_value
    disk,             \* the files under the root: (directory, file name)
    scan_call         \* the last call of process_file or clean_up_database: its
                      \* arguments and branch, or the table before it; whether
                      \* it made all its writes; its result

vars == << media_files, corrupt, media_analysis, prev_run, run_state, run_result,
           batch_size, cancel_token, flushed_at_cancel, existed_ids, total_tasks,
           total_processed,
           ppc, cursor, files, queue, tx_dropped, producer_result,
           cpc, tasks, running, finished, results, task_count, txn_open, open_txns, txn,
           consumer_result, store0, enqueued, spawned, flushed, progress,
           observed, seen_cancel, txn_failed,
           analysis_rows, inserted_ids, agg_pc, file_ids, analysis_results,
           sum, count, agg_result, an_pc, pcm, pos, nframes, acc, raw,
           runs, playlist_entries, add_calls, appended,
           cover_files, media_cover_art, returned_bytes, last_call,
           file_rows, metadata_rows, disk, scan_call >>

pipelineVars == << media_files, corrupt, media_analysis, prev_run, run_state,
                   run_result, batch_size, cancel_token, flushed_at_cancel,
                   existed_ids, total_tasks,
                   total_processed, ppc, cursor, files, queue, tx_dropped,
                   producer_result, cpc, tasks, running, finished, results,
                   task_count, txn_open, open_txns, txn, consumer_result, store0,
                   enqueued, spawned, flushed, progress, observed, seen_cancel,
                   txn_failed >>
storeVars == << analysis_rows, inserted_ids, agg_pc, file_ids, analysis_results,
                sum, count, agg_result >>
analyzerVars == << an_pc, pcm, pos, nframes, acc, raw >>
overlapVars == << runs >>
playlistVars == << playlist_entries, add_calls, appended >>
coverVars == << cover_files, media_cover_art, returned_bytes, last_call >>
scanVars == << file_rows, metadata_rows, disk, scan_call >>
appVars == << overlapVars, playlistVars, coverVars, scanVars >>

libVars  == << media_files, corrupt >>
cancelVars == << cancel_token, flushed_at_cancel >>
callVars == << prev_run, run_state, run_result >>
snapVars == << batch_size, existed_ids, total_tasks, store0 >>
prodVars == << ppc, cursor, files, producer_result, tx_dropped, enqueued >>
taskVars == << tasks, running, finished >>
txnVars  == << results, task_count, txn_open, open_txns, txn, txn_failed >>

----------------------------------------------------------------------------
(* Helpers *)

Min(a, b) == IF a <= b THEN a ELSE b

RECURSIVE Ascending(_)
Ascending(S) ==
    IF S = {} THEN << >>
    ELSE LET m == CHOOSE x \in S : \A y \in S : x <= y
         IN  << m >> \o Ascending(S \ {m})

Range(s) == { s[i] : i \in 1..Len(s) }

NoRows == [f \in FileIds |-> 0]

\* existed_ids left empty: every file counts as not analysed
DistinctFileIdsNone(rows) == {}

\* ids with at least one row: SELECT DISTINCT file_id FROM media_analysis
DistinctFileIds(rows) == { f \in FileIds : rows[f] > 0 }

\* the paging query with an inclusive cursor: the last file of a page comes again
PageQueryInclusive(all, existed, after, n) ==
    LET s == Ascending({ f \in all : f \notin existed /\ f >= after })
    IN  SubSeq(s, 1, Min(n, Len(s)))

\* the paging query without the NOT IN filter
PageQueryUnfiltered(all, existed, after, n) ==
    LET s == Ascending({ f \in all : f > after })
    IN  SubSeq(s, 1, Min(n, Len(s)))

\* media_files WHERE id NOT IN existed AND id > after ORDER BY id LIMIT n
PageQuery(all, existed, after, n) ==
    LET s == Ascending({ f \in all : f \notin existed /\ f > after })
    IN  SubSeq(s, 1, Min(n, Len(s)))

\* the task of a file: analysis_file returns Ok or Err, or the task panics
TaskOutcomes(f) == IF f \in corrupt THEN {"Err", "JoinError"} ELSE {"Ok"}

\* a task given the database handle, inserting its own row when it succeeds
TaskWritesRow(rows, f, o) == IF o = "Ok" THEN [rows EXCEPT ![f] = @ + 1] ELSE rows

\* the table after a task has run: analysis_file is given the file and the
\* library path only and returns its result to the consumer
TaskWrites(rows, f, o) == rows

\* the match with the error of analysis_file propagated by ?
MatchResultPropagate(r) ==
    IF r.res = "Ok" THEN "insert" ELSE IF r.res = "Err" THEN "abort" ELSE "log"

\* the match writing a row for every result, failed or not
MatchResultInsertAll(r) == "insert"

\* the match on a task result inside the transaction
MatchResult(r) == IF r.res = "Ok" THEN "insert" ELSE "log"

\* insert_analysis_result on the transaction
InsertRow(t, f) == [t EXCEPT ![f] = @ + 1]

\* the commit writing the table anew from the rows of the transaction
CommitReplaces(rows, t) == t

\* the commit left out: the transaction is dropped and its rows are rolled back
CommitForgotten(rows, t) == rows

\* txn.commit(): the rows of the transaction become rows of the table
Commit(rows, t) == [f \in FileIds |-> rows[f] + t[f]]

\* the inserts made outside a transaction: a failure keeps the rows written so far
RollbackKeepsRows(rows, t) == [f \in FileIds |-> rows[f] + t[f]]

\* the transaction is dropped without commit: rollback
Rollback(rows, t) == rows

\* what the consumer does with the results of the tasks left after its loop
RemainingRows(rs) == NoRows

\* a channel with room for one file more than the batch size
CapacityPlusOne(b) == b + 1

\* async_channel::bounded(batch_size): the capacity of the channel
Capacity(b) == b

\* the batch test with > for >=: one task more is spawned before the join
BatchFullLate(n, b) == n > b

\* tasks.len() >= batch_size
BatchFull(n, b) == n >= b

\* the transaction begun without awaiting the tasks of the batch
AllJoinedNoWait(r) == TRUE

\* buffer_unordered(..).collect().await: every task of the batch has finished
AllJoined(r) == r = {}

\* the stream asked for its next item only: the result of the first task to finish
CollectFirst(fin) == IF fin = << >> THEN << >> ELSE << Head(fin) >>

\* buffer_unordered(batch_size).collect(): all results, in completion order
Collect(fin) == fin

\* main_db.begin(): one more transaction is open
BeginTxn(n) == n + 1

\* a transaction that stays open after its commit
EndTxnLeak(n) == n

\* txn.commit() or the drop of txn: the transaction is closed
EndTxn(n) == n - 1

\* the callback given the size of the batch instead of the running total
ProgressArgsBatchOnly(processed, n, total) == << n, total >>

\* total_processed += task_count; progress_callback(total_processed, total_tasks)
ProgressArgs(processed, n, total) == << processed + n, total >>

\* the loops running without the check of the token
is_cancelled_unchecked(token) == FALSE

\* token.is_cancelled() at the top of the producer's and of the consumer's loop
is_cancelled(token) == token

\* a clone of the sender kept alive: the channel stays open after the producer
DropTxKeepsClone(dropped) == dropped

\* drop(tx) after the producer's loop: the channel is closed
DropTx(dropped) == TRUE

\* the sender kept by the enclosing function: an error of the producer leaves
\* the channel open
TxOutlivesFuture(dropped) == dropped

\* the producer's future owns tx (it is moved in by drop(tx)), so the return
\* of the paging error with ? drops it: the channel is closed
TxDroppedWithFuture(dropped) == TRUE

\* the block after the loop entered whether or not tasks are left
HasRemainingAlways(t) == TRUE

\* if !tasks.is_empty(): tasks are left after the consumer's loop
HasRemaining(t) == t # << >>

\* the count taken over the files without analysis only
CountUnfeatured(all, existed) == Cardinality(all \ existed)

\* media_files::Entity::find().count(main_db)
CountAll(all, existed) == Cardinality(all)

----------------------------------------------------------------------------
\* no call of analysis_audio_library has been made
PipelineIdle ==
    /\ prev_run = [batch_size |-> 0, completed |-> FALSE]
    /\ run_state = "idle"
    /\ run_result = [tag |-> "None", value |-> 0]
    /\ batch_size = 1
    /\ cancel_token = FALSE
    /\ flushed_at_cancel = 0
    /\ existed_ids = {}
    /\ total_tasks = 0
    /\ total_processed = 0
    /\ ppc = "done"
    /\ cursor = 0
    /\ files = << >>
    /\ queue = << >>
    /\ tx_dropped = TRUE
    /\ producer_result = "None"
    /\ cpc = "done"
    /\ tasks = << >>
    /\ running = {}
    /\ finished = << >>
    /\ results = << >>
    /\ task_count = 0
    /\ txn_open = FALSE
    /\ open_txns = 0
    /\ txn = NoRows
    /\ consumer_result = "None"
    /\ enqueued = << >>
    /\ spawned = << >>
    /\ flushed = << >>
    /\ progress = << >>
    /\ observed = {}
    /\ seen_cancel = FALSE
    /\ txn_failed = << >>

\* no file is being analysed
AnalyzerIdle ==
    /\ an_pc = "idle"
    /\ pcm = << >>
    /\ pos = 1
    /\ nframes = 0
    /\ acc = << >>
    /\ raw = << >>

\* no call of get_centralized_analysis_result has been made
AggIdle ==
    /\ agg_pc = "idle"
    /\ file_ids = {}
    /\ analysis_results = << >>
    /\ sum = << >>
    /\ count = << >>
    /\ agg_result = << >>

\* the two calls of analysis_audio_library that may overlap
RunIds == { 1, 2 }

\* neither of the two calls has been made
OverlapIdle ==
    runs = [r \in RunIds |->
               [pc |-> "idle", batch_size |-> 1, existed_ids |-> {}, cursor |-> 0]]

\* a client that is not in a call of add_media_file_to_playlist
NoCall == [pc |-> "idle", playlist_id |-> 1, media_file_id |-> 1, max_position |-> 0]

\* table media_file_playlists is empty and no call is in flight
PlaylistIdle ==
    /\ playlist_entries = << >>
    /\ add_calls = [c \in { 1, 2 } |-> NoCall]
    /\ appended = << >>

\* no file is known and get_cover_art has not been called
CoverIdle ==
    /\ cover_files = << >>
    /\ media_cover_art = << >>
    /\ returned_bytes = << >>
    /\ last_call = [file_id |-> 0, result |-> "None", linked |-> FALSE]

\* the tables of the scan are empty, the root holds no file
ScanIdle ==
    /\ file_rows = << >>
    /\ metadata_rows = {}
    /\ disk = {}
    /\ scan_call = [op |-> "none"]

\* nothing outside the pipeline, the table and the analysis has happened
AppIdle ==
    /\ OverlapIdle
    /\ PlaylistIdle
    /\ CoverIdle
    /\ ScanIdle

Init ==
    /\ \E n \in 0..MaxFiles : media_files = 1..n
    /\ corrupt \in { c \in SUBSET media_files : Cardinality(c) <= MaxCorrupt }
    /\ \E done \in SUBSET (media_files \ corrupt) :
           media_analysis = [f \in FileIds |-> IF f \in done THEN 1 ELSE 0]
    /\ store0 = media_analysis
    /\ PipelineIdle
    /\ analysis_rows = << >>
    /\ inserted_ids = {}
    /\ AggIdle
    /\ AnalyzerIdle
    /\ AppIdle

\* the locals of a call of analysis_audio_library with batch size b, before
\* its producer and consumer have taken a step
Enter(b) ==
    /\ run_state \in {"idle", "returned"}
    /\ prev_run' = IF run_state = "idle" THEN prev_run
                   ELSE [batch_size |-> batch_size,
                         completed  |-> run_result.tag = "Ok" /\ ~cancel_token]
    /\ batch_size' = b
    /\ cancel_token' = FALSE
    /\ flushed_at_cancel' = 0
    /\ total_processed' = 0
    /\ cursor' = 0
    /\ files' = << >>
    /\ queue' = << >>
    /\ tasks' = << >>
    /\ running' = {}
    /\ finished' = << >>
    /\ results' = << >>
    /\ task_count' = 0
    /\ txn_open' = FALSE
    /\ open_txns' = 0
    /\ txn' = NoRows
    /\ store0' = media_analysis
    /\ enqueued' = << >>
    /\ spawned' = << >>
    /\ flushed' = << >>
    /\ progress' = << >>
    /\ observed' = {}
    /\ seen_cancel' = FALSE
    /\ txn_failed' = << >>
    /\ UNCHANGED << appVars, analyzerVars, storeVars, libVars, media_analysis >>

\* analysis_audio_library is called: existed_ids and total_tasks are read, the
\* channel is created, producer and consumer start
StartRun(b) ==
    /\ Enter(b)
    /\ run_state' = "running"
    /\ run_result' = [tag |-> "None", value |-> 0]
    /\ existed_ids' = DistinctFileIds(media_analysis)
    /\ total_tasks' = CountAll(media_files, DistinctFileIds(media_analysis))
    /\ ppc' = "loop"
    /\ tx_dropped' = FALSE
    /\ producer_result' = "None"
    /\ cpc' = "recv"
    /\ consumer_result' = "None"

\* analysis_audio_library is called and one of its two start-up queries fails:
\* the error is returned before the producer and the consumer exist
StartRunFail(b) ==
    /\ Enter(b)
    /\ run_state' = "returned"
    /\ run_result' = [tag |-> "Err", value |-> 0]
    /\ existed_ids' = {}
    /\ total_tasks' = 0
    /\ ppc' = "done"
    /\ tx_dropped' = TRUE
    /\ producer_result' = "None"
    /\ cpc' = "done"
    /\ consumer_result' = "None"

\* the token is cancelled by its owner while the run is in progress
Cancel ==
    /\ run_state = "running"
    /\ ~cancel_token
    /\ cancel_token' = TRUE
    /\ flushed_at_cancel' = Len(flushed)
    /\ UNCHANGED << appVars, analyzerVars, storeVars, libVars, media_analysis, callVars, snapVars, total_processed,
                    prodVars, queue, cpc, taskVars, txnVars, consumer_result,
                    spawned, flushed, progress, observed, seen_cancel >>

----------------------------------------------------------------------------
(* Producer *)

\* top of the loop with the token cancelled: break, drop(tx), Ok
ProducerCancelled ==
    /\ run_state = "running" /\ ppc = "loop"
    /\ is_cancelled(cancel_token)
    /\ ppc' = "done"
    /\ tx_dropped' = DropTx(tx_dropped)
    /\ producer_result' = "Ok"
    /\ UNCHANGED << appVars, analyzerVars, storeVars, libVars, media_analysis, callVars, snapVars, cancelVars,
                    total_processed, cursor, files, enqueued, queue, cpc, taskVars,
                    txnVars, consumer_result, spawned, flushed, progress,
                    observed, seen_cancel >>

\* top of the loop, token not cancelled: the paging query returns a page
ProducerFetch ==
    /\ run_state = "running" /\ ppc = "loop"
    /\ ~is_cancelled(cancel_token)
    /\ LET page == PageQuery(media_files, existed_ids, cursor, batch_size)
       IN  IF page = << >>
           THEN /\ ppc' = "done"
                /\ tx_dropped' = DropTx(tx_dropped)
                /\ producer_result' = "Ok"
                /\ files' = files
           ELSE /\ ppc' = "send"
                /\ files' = page
                /\ UNCHANGED << tx_dropped, producer_result >>
    /\ UNCHANGED << appVars, analyzerVars, storeVars, libVars, media_analysis, callVars, snapVars, cancelVars,
                    total_processed, cursor, enqueued, queue, cpc, taskVars,
                    txnVars, consumer_result, spawned, flushed, progress,
                    observed, seen_cancel >>

\* the paging query fails: the producer returns the error, tx is dropped with it
ProducerFetchFail ==
    /\ run_state = "running" /\ ppc = "loop"
    /\ ~is_cancelled(cancel_token)
    /\ ppc' = "done"
    /\ tx_dropped' = TxDroppedWithFuture(tx_dropped)
    /\ producer_result' = "Err"
    /\ UNCHANGED << appVars, analyzerVars, storeVars, libVars, media_analysis, callVars, snapVars, cancelVars,
                    total_processed, cursor, files, enqueued, queue, cpc, taskVars,
                    txnVars, consumer_result, spawned, flushed, progress,
                    observed, seen_cancel >>

\* tx.send(file): completes only while the channel holds fewer than batch_size
\* files; after the last file of the page the cursor moves after it
ProducerSend ==
    /\ run_state = "running" /\ ppc = "send"
    /\ Len(queue) < Capacity(batch_size)
    /\ queue' = Append(queue, Head(files))
    /\ enqueued' = Append(enqueued, Head(files))
    /\ files' = Tail(files)
    /\ IF Tail(files) = << >>
       THEN cursor' = Head(files) /\ ppc' = "loop"
       ELSE UNCHANGED << cursor, ppc >>
    /\ UNCHANGED << appVars, analyzerVars, storeVars, libVars, media_analysis, callVars, snapVars, cancelVars,
                    total_processed, tx_dropped, producer_result, cpc, taskVars,
                    txnVars, consumer_result, spawned, flushed, progress,
                    observed, seen_cancel >>

----------------------------------------------------------------------------
(* Consumer *)

\* rx.recv() yields a file while the token is cancelled: break
ConsumerRecvCancelled ==
    /\ run_state = "running" /\ cpc = "recv"
    /\ queue # << >>
    /\ is_cancelled(cancel_token)
    /\ queue' = Tail(queue)
    /\ cpc' = "remaining"
    /\ observed' = Range(tasks)
    /\ seen_cancel' = TRUE
    /\ UNCHANGED << appVars, analyzerVars, storeVars, libVars, media_analysis, callVars, snapVars, cancelVars,
                    total_processed, prodVars, taskVars, txnVars, consumer_result,
                    spawned, flushed, progress >>

\* rx.recv() yields a file: spawn its analysis task
ConsumerRecvSpawn ==
    /\ run_state = "running" /\ cpc = "recv"
    /\ queue # << >>
    /\ ~is_cancelled(cancel_token)
    /\ queue' = Tail(queue)
    /\ tasks' = Append(tasks, Head(queue))
    /\ running' = running \cup {Head(queue)}
    /\ spawned' = Append(spawned, Head(queue))
    /\ cpc' = IF BatchFull(Len(tasks) + 1, batch_size) THEN "join" ELSE "recv"
    /\ UNCHANGED << appVars, analyzerVars, storeVars, libVars, media_analysis, callVars, snapVars, cancelVars,
                    total_processed, prodVars, finished, txnVars, consumer_result,
                    flushed, progress, observed, seen_cancel >>

\* rx.recv() fails: the channel is closed and empty, the while loop ends
ConsumerRecvClosed ==
    /\ run_state = "running" /\ cpc = "recv"
    /\ queue = << >>
    /\ tx_dropped
    /\ cpc' = "remaining"
    /\ UNCHANGED << appVars, analyzerVars, storeVars, libVars, media_analysis, callVars, snapVars, cancelVars,
                    total_processed, prodVars, queue, taskVars, txnVars,
                    consumer_result, spawned, flushed, progress, observed,
                    seen_cancel >>

\* a spawned task finishes
TaskFinish(f) ==
    /\ run_state = "running"
    /\ f \in running
    /\ running' = running \ {f}
    /\ \E o \in TaskOutcomes(f) :
           /\ finished' = Append(finished, [id |-> f, res |-> o])
           /\ media_analysis' = TaskWrites(media_analysis, f, o)
    /\ UNCHANGED << appVars, analyzerVars, storeVars, libVars, callVars, snapVars, cancelVars,
                    total_processed, prodVars, queue, cpc, tasks, txnVars,
                    consumer_result, spawned, flushed, progress, observed,
                    seen_cancel >>

\* the batch is full: all its tasks are awaited and their results collected
ConsumerJoin ==
    /\ run_state = "running" /\ cpc = "join"
    /\ AllJoined(running)
    /\ task_count' = Len(tasks)
    /\ results' = Collect(finished)
    /\ tasks' = << >>
    /\ finished' = << >>
    /\ cpc' = "begin"
    /\ UNCHANGED << appVars, analyzerVars, storeVars, libVars, media_analysis, callVars, snapVars, cancelVars,
                    total_processed, prodVars, queue, running, txn_open, open_txns, txn,
                    txn_failed, consumer_result, spawned, flushed, progress,
                    observed, seen_cancel >>

\* main_db.begin() succeeds
ConsumerBegin ==
    /\ run_state = "running" /\ cpc = "begin"
    /\ txn_open' = TRUE
    /\ open_txns' = BeginTxn(open_txns)
    /\ txn' = NoRows
    /\ cpc' = "insert"
    /\ UNCHANGED << appVars, analyzerVars, storeVars, libVars, media_analysis, callVars, snapVars, cancelVars,
                    total_processed, prodVars, queue, taskVars, results, task_count,
                    txn_failed, consumer_result, spawned, flushed, progress,
                    observed, seen_cancel >>

\* begin, an insert or the commit fails: the consumer returns the error and the
\* transaction, if open, is dropped
ConsumerTxnFail ==
    /\ run_state = "running"
    /\ \/ cpc = "begin"
       \/ cpc = "insert" /\ results = << >>
       \/ cpc = "insert" /\ results # << >> /\ MatchResult(Head(results)) = "insert"
    /\ media_analysis' = Rollback(media_analysis, txn)
    /\ txn_failed' = << [before |-> media_analysis, commits |-> Len(flushed),
                          pending |-> txn] >>
    /\ txn_open' = FALSE
    /\ open_txns' = IF txn_open THEN EndTxn(open_txns) ELSE open_txns
    /\ txn' = NoRows
    /\ results' = << >>
    /\ consumer_result' = "Err"
    /\ cpc' = "done"
    /\ UNCHANGED << appVars, analyzerVars, storeVars, libVars, callVars, snapVars, cancelVars, total_processed,
                    prodVars, queue, taskVars, task_count, spawned, flushed,
                    progress, observed, seen_cancel >>

\* one result of the batch: a successful one is inserted, a failed one is logged
ConsumerResult ==
    /\ run_state = "running" /\ cpc = "insert"
    /\ results # << >>
    /\ LET r == Head(results)
       IN  CASE MatchResult(r) = "insert" ->
                   /\ txn' = InsertRow(txn, r.id)
                   /\ results' = Tail(results)
                   /\ UNCHANGED << cpc, consumer_result, txn_open, open_txns >>
             [] MatchResult(r) = "log" ->
                   /\ results' = Tail(results)
                   /\ UNCHANGED << cpc, consumer_result, txn_open, open_txns, txn >>
             [] OTHER ->
                   \* the error of the file is propagated with ?
                   /\ results' = << >>
                   /\ txn' = NoRows
                   /\ txn_open' = FALSE
                   /\ open_txns' = EndTxn(open_txns)
                   /\ consumer_result' = "FileErr"
                   /\ cpc' = "done"
    /\ UNCHANGED << appVars, analyzerVars, storeVars, libVars, media_analysis, callVars, snapVars, cancelVars,
                    total_processed, prodVars, queue, taskVars, task_count,
                    txn_failed, spawned, flushed, progress, observed, seen_cancel >>

\* txn.commit() succeeds, then the progress is reported
ConsumerCommit ==
    /\ run_state = "running" /\ cpc = "insert"
    /\ results = << >>
    /\ media_analysis' = Commit(media_analysis, txn)
    /\ txn_open' = FALSE
    /\ open_txns' = EndTxn(open_txns)
    /\ txn' = NoRows
    /\ total_processed' = total_processed + task_count
    /\ progress' = Append(progress, ProgressArgs(total_processed, task_count, total_tasks))
    /\ flushed' = Append(flushed, SubSeq(spawned, Len(spawned) - task_count + 1, Len(spawned)))
    /\ cpc' = "recv"
    /\ UNCHANGED << appVars, analyzerVars, storeVars, libVars, callVars, snapVars, cancelVars, prodVars, queue,
                    taskVars, results, task_count, txn_failed, consumer_result,
                    spawned, observed, seen_cancel >>

\* after the loop: the remaining tasks are awaited, their join errors logged
\* and the progress reported
ConsumerRemaining ==
    /\ run_state = "running" /\ cpc = "remaining"
    /\ running = {}
    /\ IF HasRemaining(tasks)
       THEN /\ total_processed' = total_processed + Len(tasks)
            /\ progress' = Append(progress, ProgressArgs(total_processed, Len(tasks), total_tasks))
       ELSE UNCHANGED << total_processed, progress >>
    /\ media_analysis' = Commit(media_analysis, RemainingRows(finished))
    /\ tasks' = << >>
    /\ finished' = << >>
    /\ consumer_result' = "Ok"
    /\ cpc' = "done"
    /\ UNCHANGED << appVars, analyzerVars, storeVars, libVars, callVars, snapVars, cancelVars, prodVars, queue,
                    running, txnVars, spawned, flushed, observed, seen_cancel >>

----------------------------------------------------------------------------
\* the value analysis_audio_library returns once both futures are complete
ReturnValue(p, c, total) ==
    IF p # "Ok" THEN [tag |-> "Err", value |-> 0]
    ELSE IF c = "Err" THEN [tag |-> "Err", value |-> 0]
    ELSE IF c # "Ok" THEN [tag |-> "FileErr", value |-> 0]
    ELSE [tag |-> "Ok", value |-> total]

\* futures::join! completes: both the producer and the consumer are done
Return ==
    /\ run_state = "running"
    /\ ppc = "done" /\ cpc = "done"
    /\ run_state' = "returned"
    /\ run_result' = ReturnValue(producer_result, consumer_result, total_tasks)
    /\ UNCHANGED << appVars, analyzerVars, storeVars, libVars, media_analysis, prev_run, snapVars, cancelVars,
                    total_processed, prodVars, queue, cpc, taskVars, txnVars,
                    consumer_result, spawned, flushed, progress, observed,
                    seen_cancel >>

\* the steps of the run itself: producer, consumer, analysis tasks and the return
RunStep ==
    \/ ProducerCancelled
    \/ ProducerFetch
    \/ ProducerFetchFail
    \/ ProducerSend
    \/ ConsumerRecvCancelled
    \/ ConsumerRecvSpawn
    \/ ConsumerRecvClosed
    \/ \E f \in FileIds : TaskFinish(f)
    \/ ConsumerJoin
    \/ ConsumerBegin
    \/ ConsumerTxnFail
    \/ ConsumerResult
    \/ ConsumerCommit
    \/ ConsumerRemaining
    \/ Return

Next ==
    \/ \E b \in 1..MaxBatch : StartRun(b)
    \/ \E b \in 1..MaxBatch : StartRunFail(b)
    \/ Cancel
    \/ RunStep

Spec == Init /\ [][Next]_vars

\* the steps of a run whose token is never cancelled and whose database calls
\* all succeed
QuietRunStep ==
    \/ ProducerFetch
    \/ ProducerSend
    \/ ConsumerRecvSpawn
    \/ ConsumerRecvClosed
    \/ \E f \in FileIds : TaskFinish(f)
    \/ ConsumerJoin
    \/ ConsumerBegin
    \/ ConsumerResult
    \/ ConsumerCommit
    \/ ConsumerRemaining
    \/ Return

QuietNext ==
    \/ \E b \in 1..MaxBatch : StartRun(b)
    \/ QuietRunStep

\* the runs without cancellation and without store errors; the executor polls
\* every future that can proceed, every database call and every analysis task
\* comes back: a step of the run that stays possible is taken
QuietSpec == Init /\ [][QuietNext]_vars /\ WF_vars(QuietRunStep)

----------------------------------------------------------------------------
(* The rows of table media_analysis *)

RowIds == 1..MaxRows
Values == 0..MaxValue

\* Option<f64>: None, Some(v)
None == << >>
Some(v) == << v >>

\* sea_orm::ActiveValue: NotSet, Set(x)
NotSet == << >>
Set(x) == << x >>

\* the descriptors of a struct: its scalar fields and the positions of its arrays
AxesOf(fields, arrays) ==
    { << f, 0 >> : f \in fields }
        \cup UNION { { << p, n >> : n \in 0..(arrays[p] - 1) } : p \in DOMAIN arrays }

\* struct AggregatedAnalysisResult, as the columns of media_analysis::Model
ScalarFields ==
    { "rms", "zcr", "energy", "spectral_centroid", "spectral_flatness",
      "spectral_slope", "spectral_rolloff", "spectral_spread", "spectral_skewness",
      "spectral_kurtosis", "perceptual_spread", "perceptual_sharpness" }
ArrayFields == [chroma |-> 12, perceptual_loudness |-> 24, mfcc |-> 13]
Axes == AxesOf(ScalarFields, ArrayFields)

\* the fields insert_analysis_result sets in the struct literal
InsertFields ==
    { "rms", "zcr", "energy", "spectral_centroid", "spectral_flatness",
      "spectral_slope", "spectral_rolloff", "spectral_spread", "spectral_skewness",
      "spectral_kurtosis", "perceptual_spread", "perceptual_sharpness" }

\* the last mfcc coefficient left out of its loop
InsertArraysShort == [chroma |-> 12, perceptual_loudness |-> 24, mfcc |-> 12]

\* the ranges of the three seq! loops of insert_analysis_result
InsertArrays == [chroma |-> 12, perceptual_loudness |-> 24, mfcc |-> 13]

\* the columns insert_analysis_result sets
InsertAxes == AxesOf(InsertFields, InsertArrays)

\* the ActiveModel insert_analysis_result builds: every field not named is
\* NotSet by ..Default::default()
NewAnalysis(file_id, result) ==
    [file_id |-> Set(file_id),
     cols    |-> [a \in Axes |->
                    IF a \in InsertAxes THEN Set(Some(result[a])) ELSE NotSet]]

\* the row the INSERT stores: a column that is NotSet gets its default, NULL
StoredRow(am) == [a \in Axes |-> IF am.cols[a] = NotSet THEN None ELSE am.cols[a][1]]

\* a row, or a NormalizedAnalysisResult, with values that differ along the axes
SampleValue(v, a) == (v + a[2]) % (MaxValue + 1)
SampleResults == { [a \in Axes |-> SampleValue(v, a)] : v \in Values }

\* the columns that are NULL in the rows the table starts with: none, one
\* scalar and one array position, or all
NullPatterns == { {}, { << "rms", 0 >>, << "chroma", 1 >> }, Axes }
SampleRows ==
    { [a \in Axes |-> IF a \in n THEN None ELSE Some(SampleValue(v, a))] :
          v \in Values, n \in NullPatterns }

\* insert_analysis_result(db, file_id, result), called for a file without a
\* row, between two calls of get_centralized_analysis_result
InsertAnalysisResult(file_id, result) ==
    /\ agg_pc # "loop"
    /\ file_id \notin DOMAIN analysis_rows
    /\ LET new_analysis == NewAnalysis(file_id, result)
       IN  /\ new_analysis.file_id # NotSet
           /\ analysis_rows' =
                 [f \in DOMAIN analysis_rows \cup {new_analysis.file_id[1]} |->
                     IF f = new_analysis.file_id[1] THEN StoredRow(new_analysis)
                     ELSE analysis_rows[f]]
           /\ inserted_ids' = inserted_ids \cup {new_analysis.file_id[1]}
    /\ agg_pc' = "idle"
    /\ file_ids' = {}
    /\ analysis_results' = << >>
    /\ sum' = << >>
    /\ count' = << >>
    /\ agg_result' = << >>
    /\ UNCHANGED << appVars, analyzerVars, pipelineVars >>

----------------------------------------------------------------------------
(* get_centralized_analysis_result *)

\* f64 division: the quotient as a fraction in lowest terms, << 0, 0 >> for a
\* division by zero (NaN or an infinity)
RECURSIVE GCD(_, _)
GCD(a, b) == IF b = 0 THEN a ELSE GCD(b, a % b)
Div(s, c) == IF c = 0 THEN << 0, 0 >> ELSE << s \div GCD(s, c), c \div GCD(s, c) >>
Zero == << 0, 1 >>

\* the fields and the arrays the loop over the rows processes
ProcessFields ==
    { "rms", "zcr", "energy", "spectral_centroid", "spectral_flatness",
      "spectral_slope", "spectral_rolloff", "spectral_spread", "spectral_skewness",
      "spectral_kurtosis", "perceptual_spread", "perceptual_sharpness" }
ProcessArrays == [perceptual_loudness |-> 24, mfcc |-> 13, chroma |-> 12]

\* the count raised for every row, also one that is None in the field
process_field_counts_all(s, c, value) ==
    IF value # None THEN [sum |-> s + value[1], count |-> c + 1]
    ELSE [sum |-> s, count |-> c + 1]

\* macro process_field!: a field that is Some adds to its sum and to its count
process_field(s, c, value) ==
    IF value # None THEN [sum |-> s + value[1], count |-> c + 1]
    ELSE [sum |-> s, count |-> c]

\* macro process_array!: the same for one position of an array
process_array(s, c, value) ==
    IF value # None THEN [sum |-> s + value[1], count |-> c + 1]
    ELSE [sum |-> s, count |-> c]

\* the quotient taken without the test of the count
calculate_mean_unguarded(s, c) == Div(s, c)

\* macro calculate_mean!
calculate_mean(s, c) == IF c > 0 THEN Div(s, c) ELSE Zero

\* macro calculate_array_mean!: position i, in 0..size-1, of the array it builds
calculate_array_mean(s, c, field, size, i) ==
    IF c[<< field, i >>] > 0 THEN Div(s[<< field, i >>], c[<< field, i >>])
    ELSE Zero

\* the rows whose file_id is in ids, as the query returns them
LoadRows(rows, ids) == [i \in 1..Cardinality(DOMAIN rows \cap ids) |->
                           rows[Ascending(DOMAIN rows \cap ids)[i]]]

\* the axes the loop over the rows processes
ProcessAxes == AxesOf(ProcessFields, ProcessArrays)

\* one row accumulated into sum and count at axis a
Accumulate(s, c, value, a) ==
    IF a \notin ProcessAxes THEN [sum |-> s, count |-> c]
    ELSE IF a[1] \in ProcessFields THEN process_field(s, c, value)
    ELSE process_array(s, c, value)

\* the call: the rows are loaded, sum and count start at 0.0
GetCentralizedLoad(ids) ==
    /\ agg_pc = "idle"
    /\ agg_pc' = "loop"
    /\ file_ids' = ids
    /\ analysis_results' = LoadRows(analysis_rows, ids)
    /\ sum' = [a \in Axes |-> 0]
    /\ count' = [a \in Axes |-> 0]
    /\ agg_result' = << >>
    /\ UNCHANGED << appVars, analyzerVars, pipelineVars, analysis_rows, inserted_ids >>

\* the call with the query failing: unwrap panics
GetCentralizedLoadFail(ids) ==
    /\ agg_pc = "idle"
    /\ agg_pc' = "panicked"
    /\ file_ids' = ids
    /\ analysis_results' = << >>
    /\ sum' = << >>
    /\ count' = << >>
    /\ agg_result' = << >>
    /\ UNCHANGED << appVars, analyzerVars, pipelineVars, analysis_rows, inserted_ids >>

\* one turn of the loop over the rows
GetCentralizedProcess ==
    /\ agg_pc = "loop"
    /\ analysis_results # << >>
    /\ LET result == Head(analysis_results)
       IN  /\ sum' = [a \in Axes |-> Accumulate(sum[a], count[a], result[a], a).sum]
           /\ count' = [a \in Axes |-> Accumulate(sum[a], count[a], result[a], a).count]
    /\ analysis_results' = Tail(analysis_results)
    /\ UNCHANGED << appVars, analyzerVars, pipelineVars, analysis_rows, inserted_ids, agg_pc, file_ids,
                    agg_result >>

\* after the loop: the struct of the means is returned
GetCentralizedReturn ==
    /\ agg_pc = "loop"
    /\ analysis_results = << >>
    /\ agg_result' =
          [a \in Axes |->
              IF a[1] \in ScalarFields THEN calculate_mean(sum[a], count[a])
              ELSE calculate_array_mean(sum, count, a[1], ArrayFields[a[1]], a[2])]
    /\ agg_pc' = "done"
    /\ UNCHANGED << appVars, analyzerVars, pipelineVars, analysis_rows, inserted_ids, file_ids,
                    analysis_results, sum, count >>

\* a table of rows of any origin, some with NULL columns; the library is
\* empty and no analysis runs
StoreInit ==
    /\ media_files = {} /\ corrupt = {}
    /\ media_analysis = NoRows /\ store0 = NoRows
    /\ PipelineIdle
    /\ \E S \in SUBSET RowIds : analysis_rows \in [S -> SampleRows]
    /\ inserted_ids = {}
    /\ AggIdle
    /\ AnalyzerIdle
    /\ AppIdle

StoreNext ==
    \/ \E f \in RowIds, r \in SampleResults : InsertAnalysisResult(f, r)
    \/ \E ids \in SUBSET RowIds : GetCentralizedLoad(ids)
    \/ \E ids \in SUBSET RowIds : GetCentralizedLoadFail(ids)
    \/ GetCentralizedProcess
    \/ GetCentralizedReturn

StoreSpec == StoreInit /\ [][StoreNext]_vars

----------------------------------------------------------------------------
(* The analysis of one file: frames, per-frame descriptors, their means *)

\* the samples of the signals analysed: negative, zero, positive
Amplitudes == { -1, 0, 1 }

\* build_hanning_window(4) = (0, 0.75, 0.75, 0), in units of 0.75
build_hanning_window == << 0, 1, 1, 0 >>
WindowSize == Len(build_hanning_window)
\* the overlap is half the window
HopSize == WindowSize \div 2

SpectralDescriptors ==
    { "spectral_centroid", "spectral_flatness", "spectral_slope", "spectral_rolloff",
      "spectral_spread", "spectral_skewness", "spectral_kurtosis" }
Descriptors == { "rms", "zcr", "energy" } \cup SpectralDescriptors

\* sum of two fractions
AddQ(x, y) == Div(x[1] * y[2] + y[1] * x[2], x[2] * y[2])

\* the frame under the window, and its power spectrum at the bins 0, 1, 2 of
\* a discrete Fourier transform of size 4
Windowed(frame) == [n \in 1..WindowSize |-> build_hanning_window[n] * frame[n]]
PowerSpectrum(w) ==
    << (w[1] + w[2] + w[3] + w[4]) * (w[1] + w[2] + w[3] + w[4]),
       (w[1] - w[3]) * (w[1] - w[3]) + (w[4] - w[2]) * (w[4] - w[2]),
       (w[1] - w[2] + w[3] - w[4]) * (w[1] - w[2] + w[3] - w[4]) >>

\* a quotient over the power distribution taken without a test of its divisor
SpectralRatioUnguarded(n, d) == Div(n, d)

\* a quotient over the power distribution: 0 for a frame without energy, and
\* whenever the divisor is 0
SpectralRatio(n, d) == IF d = 0 THEN Zero ELSE Div(n, d)

\* moments of the power distribution p over the bins 0..2: total power, first
\* moment, and the central moments of order j scaled by M0^j
M0(p) == p[1] + p[2] + p[3]
M1(p) == p[2] + 2 * p[3]
Dev(p, k) == k * M0(p) - M1(p)
C2(p) == Dev(p, 0) * Dev(p, 0) * p[1] + Dev(p, 1) * Dev(p, 1) * p[2]
            + Dev(p, 2) * Dev(p, 2) * p[3]
C3(p) == Dev(p, 0) * Dev(p, 0) * Dev(p, 0) * p[1]
            + Dev(p, 1) * Dev(p, 1) * Dev(p, 1) * p[2]
            + Dev(p, 2) * Dev(p, 2) * Dev(p, 2) * p[3]
C4(p) == Dev(p, 0) * Dev(p, 0) * Dev(p, 0) * Dev(p, 0) * p[1]
            + Dev(p, 1) * Dev(p, 1) * Dev(p, 1) * Dev(p, 1) * p[2]
            + Dev(p, 2) * Dev(p, 2) * Dev(p, 2) * Dev(p, 2) * p[3]
Sign(x) == IF x < 0 THEN -1 ELSE IF x > 0 THEN 1 ELSE 0

\* the first bin below which 85 % of the power lies
Rolloff(p) ==
    IF 100 * p[1] >= 85 * M0(p) THEN 0
    ELSE IF 100 * (p[1] + p[2]) >= 85 * M0(p) THEN 1 ELSE 2

\* the number of sign changes between consecutive samples
ZeroCrossings(frame) ==
    Cardinality({ n \in 1..(Len(frame) - 1) : frame[n] * frame[n + 1] < 0 })

RECURSIVE SumSquares(_)
SumSquares(frame) ==
    IF frame = << >> THEN 0
    ELSE Head(frame) * Head(frame) + SumSquares(Tail(frame))

\* the descriptors of one frame, as fractions: rms and spectral_spread as
\* their squares, spectral_skewness as its square with its sign,
\* spectral_flatness as its third power
FrameDescription(frame) ==
    LET p == PowerSpectrum(Windowed(frame))
        e == SumSquares(frame)
    IN  [d \in Descriptors |->
            CASE d = "energy" -> << e, 1 >>
              [] d = "rms" -> Div(e, WindowSize)
              [] d = "zcr" -> << ZeroCrossings(frame), 1 >>
              [] d = "spectral_centroid" -> SpectralRatio(M1(p), M0(p))
              [] d = "spectral_spread" -> SpectralRatio(C2(p), M0(p) * M0(p) * M0(p))
              [] d = "spectral_skewness" ->
                    SpectralRatio(Sign(C3(p)) * C3(p) * C3(p) * M0(p),
                                  C2(p) * C2(p) * C2(p))
              [] d = "spectral_kurtosis" -> SpectralRatio(C4(p) * M0(p), C2(p) * C2(p))
              [] d = "spectral_flatness" ->
                    SpectralRatio(27 * p[1] * p[2] * p[3], M0(p) * M0(p) * M0(p))
              [] d = "spectral_slope" -> SpectralRatio(M1(p) - M0(p), 2 * M0(p))
              [] d = "spectral_rolloff" ->
                    IF M0(p) = 0 THEN Zero ELSE << Rolloff(p), 1 >>]

\* analyze_audio is called on a decoded signal
AnalyzeStart(samples) ==
    /\ an_pc = "idle"
    /\ an_pc' = "frames"
    /\ pcm' = samples
    /\ pos' = 1
    /\ nframes' = 0
    /\ acc' = [d \in Descriptors |-> Zero]
    /\ raw' = << >>
    /\ UNCHANGED << appVars, pipelineVars, storeVars >>

\* the next whole frame is described and added to the sums; a trailing
\* partial frame is dropped
AnalyzeFrame ==
    /\ an_pc = "frames"
    /\ pos + WindowSize - 1 <= Len(pcm)
    /\ LET description == FrameDescription(SubSeq(pcm, pos, pos + WindowSize - 1))
       IN  acc' = [d \in Descriptors |-> AddQ(acc[d], description[d])]
    /\ pos' = pos + HopSize
    /\ nframes' = nframes + 1
    /\ UNCHANGED << appVars, pipelineVars, storeVars, an_pc, pcm, raw >>

\* after the last frame: the mean of every descriptor over the frames
AnalyzeFinish ==
    /\ an_pc = "frames"
    /\ pos + WindowSize - 1 > Len(pcm)
    /\ raw' = [d \in Descriptors |->
                  IF nframes = 0 THEN Zero ELSE Div(acc[d][1], acc[d][2] * nframes)]
    /\ an_pc' = "done"
    /\ UNCHANGED << appVars, pipelineVars, storeVars, pcm, pos, nframes, acc >>

RECURSIVE Signals(_)
Signals(n) ==
    IF n = 0 THEN { << >> }
    ELSE Signals(n - 1) \cup { Append(s, a) : s \in { t \in Signals(n - 1) : Len(t) = n - 1 },
                                              a \in Amplitudes }

AnalyzerInit ==
    /\ media_files = {} /\ corrupt = {}
    /\ media_analysis = NoRows /\ store0 = NoRows
    /\ PipelineIdle
    /\ analysis_rows = << >>
    /\ inserted_ids = {}
    /\ AggIdle
    /\ AnalyzerIdle
    /\ AppIdle

AnalyzerNext ==
    \/ \E samples \in Signals(MaxSamples) : AnalyzeStart(samples)
    \/ AnalyzeFrame
    \/ AnalyzeFinish

AnalyzerSpec == AnalyzerInit /\ [][AnalyzerNext]_vars

----------------------------------------------------------------------------
(* Two calls of analysis_audio_library on the same database *)

\* A call touches the database at its start (existed_ids, total_tasks), in
\* its paging queries, which read media_files only, and in the commit of each
\* full batch. A page and a batch both hold batch_size files in the order of
\* their ids, so the k-th batch is the k-th page: one step per batch keeps
\* every order in which the two calls can reach the table.

\* everything of the single call of the pipeline but the table
runLocals == << libVars, callVars, snapVars, cancelVars, total_processed, prodVars,
                queue, cpc, taskVars, txnVars, consumer_result, spawned, flushed,
                progress, observed, seen_cancel >>

notOverlapVars == << playlistVars, coverVars, scanVars >>

\* the rows a transaction holds after the results of a batch went through it
RECURSIVE BatchRows(_)
BatchRows(page) ==
    IF page = << >> THEN NoRows
    ELSE IF \E o \in TaskOutcomes(Head(page)) :
                MatchResult([id |-> Head(page), res |-> o]) = "insert"
         THEN InsertRow(BatchRows(Tail(page)), Head(page))
         ELSE BatchRows(Tail(page))

\* call r starts with batch size b: existed_ids is read
OverlapStart(r, b) ==
    /\ runs[r].pc = "idle"
    /\ runs' = [runs EXCEPT ![r] = [pc |-> "running", batch_size |-> b,
                                    existed_ids |-> DistinctFileIds(media_analysis),
                                    cursor |-> 0]]
    /\ UNCHANGED << runLocals, media_analysis, storeVars, analyzerVars,
                    notOverlapVars >>

\* call r takes its next page: a full batch is analysed and committed, and the
\* cursor moves on; a shorter one ends the call without a commit
OverlapBatch(r) ==
    /\ runs[r].pc = "running"
    /\ LET page == PageQuery(media_files, runs[r].existed_ids, runs[r].cursor,
                             runs[r].batch_size)
       IN  IF page # << >> /\ BatchFull(Len(page), runs[r].batch_size)
           THEN /\ media_analysis' = Commit(media_analysis, BatchRows(page))
                /\ runs' = [runs EXCEPT ![r].cursor = page[Len(page)]]
           ELSE /\ runs' = [runs EXCEPT ![r].pc = "returned"]
                /\ UNCHANGED media_analysis
    /\ UNCHANGED << runLocals, storeVars, analyzerVars,
                    notOverlapVars >>

\* call r ends before its next batch: its token is cancelled or a query fails
OverlapStop(r) ==
    /\ runs[r].pc = "running"
    /\ runs' = [runs EXCEPT ![r].pc = "returned"]
    /\ UNCHANGED << runLocals, media_analysis, storeVars, analyzerVars,
                    notOverlapVars >>

OverlapInit ==
    /\ \E n \in 0..MaxFiles : media_files = 1..n
    /\ corrupt \in { c \in SUBSET media_files : Cardinality(c) <= MaxCorrupt }
    /\ \E done \in SUBSET (media_files \ corrupt) :
           media_analysis = [f \in FileIds |-> IF f \in done THEN 1 ELSE 0]
    /\ store0 = media_analysis
    /\ PipelineIdle
    /\ analysis_rows = << >>
    /\ inserted_ids = {}
    /\ AggIdle
    /\ AnalyzerIdle
    /\ AppIdle

OverlapNext ==
    \/ \E r \in RunIds, b \in 1..MaxBatch : OverlapStart(r, b)
    \/ \E r \in RunIds : OverlapBatch(r)
    \/ \E r \in RunIds : OverlapStop(r)

OverlapSpec == OverlapInit /\ [][OverlapNext]_vars

----------------------------------------------------------------------------
(* Playlists: table media_file_playlists *)

PlaylistIds == { 1, 2 }
PlaylistFiles == { 1, 2 }
AddCallers == { 1, 2 }
\* the positions given to add_item_to_playlist
ItemPositions == { 0, 3 }

\* the maximum taken over the entries of every playlist
MaxPositionAnyPlaylist(entries, playlist_id) ==
    LET S == { entries[i].position : i \in 1..Len(entries) }
    IN  IF S = {} THEN 0 ELSE CHOOSE x \in S : \A y \in S : y <= x

\* filter(PlaylistId.eq(playlist_id)).order_by_desc(Position).one(db)
\*     .map_or(0, |item| item.position)
MaxPosition(entries, playlist_id) ==
    LET S == { entries[i].position :
                   i \in { j \in 1..Len(entries) : entries[j].playlist_id = playlist_id } }
    IN  IF S = {} THEN 0 ELSE CHOOSE x \in S : \A y \in S : y <= x

\* the positions of the entries of a playlist
PositionsOf(entries, playlist_id) ==
    { entries[i].position :
          i \in { j \in 1..Len(entries) : entries[j].playlist_id = playlist_id } }

notPlaylistVars == << pipelineVars, storeVars, analyzerVars, overlapVars, coverVars,
                     scanVars >>

NoCallInFlight == \A c \in AddCallers : add_calls[c].pc = "idle"

\* add_item_to_playlist: one insert with the position given
AddItemToPlaylist(playlist_id, media_file_id, position) ==
    /\ Len(playlist_entries) < MaxEntries
    /\ playlist_entries' =
           Append(playlist_entries, [playlist_id |-> playlist_id,
                                     media_file_id |-> media_file_id,
                                     position |-> position])
    /\ UNCHANGED << add_calls, appended, notPlaylistVars >>

\* add_media_file_to_playlist, up to its first await: the query for the
\* entry with the highest position of the playlist
AddMediaFileRead(c, playlist_id, media_file_id) ==
    /\ add_calls[c].pc = "idle"
    /\ Len(playlist_entries) + Cardinality({ d \in AddCallers : add_calls[d].pc = "insert" })
           < MaxEntries
    /\ add_calls' = [add_calls EXCEPT ![c] =
           [pc |-> "insert", playlist_id |-> playlist_id, media_file_id |-> media_file_id,
            max_position |-> MaxPosition(playlist_entries, playlist_id)]]
    /\ UNCHANGED << playlist_entries, appended, notPlaylistVars >>

\* add_media_file_to_playlist, from the insert to its return
AddMediaFileInsert(c) ==
    /\ add_calls[c].pc = "insert"
    /\ playlist_entries' =
           Append(playlist_entries, [playlist_id |-> add_calls[c].playlist_id,
                                     media_file_id |-> add_calls[c].media_file_id,
                                     position |-> add_calls[c].max_position + 1])
    /\ appended' =
           Append(appended, [playlist_id |-> add_calls[c].playlist_id,
                             position |-> add_calls[c].max_position + 1,
                             before |-> PositionsOf(playlist_entries,
                                                    add_calls[c].playlist_id)])
    /\ add_calls' = [add_calls EXCEPT ![c] = NoCall]
    /\ UNCHANGED notPlaylistVars

\* the insert fails: the error is returned and no entry is written
AddMediaFileFail(c) ==
    /\ add_calls[c].pc = "insert"
    /\ add_calls' = [add_calls EXCEPT ![c] = NoCall]
    /\ UNCHANGED << playlist_entries, appended, notPlaylistVars >>

PlaylistInit ==
    /\ media_files = {} /\ corrupt = {}
    /\ media_analysis = NoRows /\ store0 = NoRows
    /\ PipelineIdle
    /\ analysis_rows = << >>
    /\ inserted_ids = {}
    /\ AggIdle
    /\ AnalyzerIdle
    /\ AppIdle

\* the calls one after the other: a call starts when no other is in flight
SeqAddItemToPlaylist(playlist_id, media_file_id, position) ==
    NoCallInFlight /\ AddItemToPlaylist(playlist_id, media_file_id, position)

SeqAddMediaFileRead(c, playlist_id, media_file_id) ==
    NoCallInFlight /\ AddMediaFileRead(c, playlist_id, media_file_id)

PlaylistNext ==
    \/ \E p \in PlaylistIds, m \in PlaylistFiles, x \in ItemPositions :
           SeqAddItemToPlaylist(p, m, x)
    \/ \E c \in AddCallers, p \in PlaylistIds, m \in PlaylistFiles :
           SeqAddMediaFileRead(c, p, m)
    \/ \E c \in AddCallers : AddMediaFileInsert(c)
    \/ \E c \in AddCallers : AddMediaFileFail(c)

PlaylistSpec == PlaylistInit /\ [][PlaylistNext]_vars

\* the calls of several clients, interleaved at their awaits
PlaylistRaceNext ==
    \/ \E p \in PlaylistIds, m \in PlaylistFiles, x \in ItemPositions :
           AddItemToPlaylist(p, m, x)
    \/ \E c \in AddCallers, p \in PlaylistIds, m \in PlaylistFiles :
           AddMediaFileRead(c, p, m)
    \/ \E c \in AddCallers : AddMediaFileInsert(c)
    \/ \E c \in AddCallers : AddMediaFileFail(c)

PlaylistRaceSpec == PlaylistInit /\ [][PlaylistRaceNext]_vars

----------------------------------------------------------------------------
(* Cover art: get_cover_art, tables media_files and media_cover_art *)

CoverFileIds == 1..MaxCoverFiles

\* what extract_cover_art_binary finds in a file: nothing, or a picture with
\* its CRC; two different pictures may have the same CRC
NoArt == [crc |-> "", data |-> ""]
Arts == { [crc |-> "a", data |-> "A"], [crc |-> "a", data |-> "A2"],
          [crc |-> "b", data |-> "B"] }

\* cover_art_id: Option<i32>, None as 0
NoCoverArtId == 0

\* the lookup left out: no row is ever found
FindByHashNone(rows, hash) == 0

\* media_cover_art::Entity::find().filter(FileHash.eq(hash)).one(db): the id
\* of a row with that hash, 0 for None
FindByHash(rows, hash) ==
    IF \E i \in 1..Len(rows) : rows[i].file_hash = hash
    THEN CHOOSE i \in 1..Len(rows) : rows[i].file_hash = hash
    ELSE 0

notCoverVars == << pipelineVars, storeVars, analyzerVars, overlapVars, playlistVars,
                  scanVars >>

\* the hash and the bytes stored for a file: those of its picture, or the
\* empty hash and no bytes for a file without one
HashOf(art) == art.crc
BinaryOf(art) == art.data

\* get_cover_art returns, every database call succeeding
GetCoverArt(file_id) ==
    /\ IF file_id \notin DOMAIN cover_files
       THEN /\ last_call' = [file_id |-> file_id, result |-> "None", linked |-> FALSE]
            /\ UNCHANGED << cover_files, media_cover_art, returned_bytes >>
       ELSE IF cover_files[file_id].cover_art_id # NoCoverArtId
       THEN LET binary == media_cover_art[cover_files[file_id].cover_art_id].binary
            IN  /\ last_call' = [file_id |-> file_id, result |-> "Some", linked |-> TRUE]
                /\ returned_bytes' =
                       [returned_bytes EXCEPT ![file_id] = @ \cup { binary }]
                /\ UNCHANGED << cover_files, media_cover_art >>
       ELSE /\ cover_files[file_id].on_disk
            /\ LET art == cover_files[file_id].art
                   existing == FindByHash(media_cover_art, HashOf(art))
               IN  IF existing # 0
                   THEN /\ cover_files' =
                               [cover_files EXCEPT ![file_id].cover_art_id = existing]
                        /\ returned_bytes' =
                               [returned_bytes EXCEPT
                                   ![file_id] = @ \cup { media_cover_art[existing].binary }]
                        /\ UNCHANGED media_cover_art
                   ELSE /\ media_cover_art' =
                               Append(media_cover_art,
                                      [file_hash |-> HashOf(art), binary |-> BinaryOf(art)])
                        /\ cover_files' =
                               [cover_files EXCEPT
                                   ![file_id].cover_art_id = Len(media_cover_art) + 1]
                        /\ returned_bytes' =
                               [returned_bytes EXCEPT ![file_id] = @ \cup { BinaryOf(art) }]
            /\ last_call' = [file_id |-> file_id, result |-> "Some", linked |-> FALSE]
    /\ UNCHANGED notCoverVars

\* the file of the record is gone from the disk: canonicalize(..).unwrap() panics
GetCoverArtPanic(file_id) ==
    /\ file_id \in DOMAIN cover_files
    /\ cover_files[file_id].cover_art_id = NoCoverArtId
    /\ ~cover_files[file_id].on_disk
    /\ last_call' = [file_id |-> file_id, result |-> "panic", linked |-> FALSE]
    /\ UNCHANGED << cover_files, media_cover_art, returned_bytes, notCoverVars >>

\* a query fails before anything is written: the error is returned
GetCoverArtQueryFail(file_id) ==
    /\ file_id \in DOMAIN cover_files => 
           cover_files[file_id].cover_art_id # NoCoverArtId \/ cover_files[file_id].on_disk
    /\ last_call' = [file_id |-> file_id, result |-> "Err",
                     linked |-> /\ file_id \in DOMAIN cover_files
                                /\ cover_files[file_id].cover_art_id # NoCoverArtId]
    /\ UNCHANGED << cover_files, media_cover_art, returned_bytes, notCoverVars >>

\* the update of the file fails after the row of the picture, if it was
\* missing, has been inserted: the error is returned
GetCoverArtUpdateFail(file_id) ==
    /\ file_id \in DOMAIN cover_files
    /\ cover_files[file_id].cover_art_id = NoCoverArtId
    /\ cover_files[file_id].on_disk
    /\ LET art == cover_files[file_id].art
       IN  media_cover_art' =
               IF FindByHash(media_cover_art, HashOf(art)) # 0 THEN media_cover_art
               ELSE Append(media_cover_art,
                           [file_hash |-> HashOf(art), binary |-> BinaryOf(art)])
    /\ last_call' = [file_id |-> file_id, result |-> "Err", linked |-> FALSE]
    /\ UNCHANGED << cover_files, returned_bytes, notCoverVars >>

\* files known to the database, none of them asked for its cover art yet
CoverInit ==
    /\ media_files = {} /\ corrupt = {}
    /\ media_analysis = NoRows /\ store0 = NoRows
    /\ PipelineIdle
    /\ analysis_rows = << >>
    /\ inserted_ids = {}
    /\ AggIdle
    /\ AnalyzerIdle
    /\ OverlapIdle
    /\ PlaylistIdle
    /\ ScanIdle
    /\ \E n \in 0..MaxCoverFiles :
           cover_files \in [1..n -> [cover_art_id : { NoCoverArtId },
                                     art : Arts \cup { NoArt },
                                     on_disk : BOOLEAN]]
    /\ media_cover_art = << >>
    /\ returned_bytes = [f \in CoverFileIds |-> {}]
    /\ last_call = [file_id |-> 0, result |-> "None", linked |-> FALSE]

CoverNext ==
    \/ \E file_id \in 1..(MaxCoverFiles + 1) : GetCoverArt(file_id)
    \/ \E file_id \in CoverFileIds : GetCoverArtPanic(file_id)
    \/ \E file_id \in 1..(MaxCoverFiles + 1) : GetCoverArtQueryFail(file_id)
    \/ \E file_id \in CoverFileIds : GetCoverArtUpdateFail(file_id)

CoverSpec == CoverInit /\ [][CoverNext]_vars

----------------------------------------------------------------------------
(* The scan: process_file and clean_up_database, tables media_files and
   media_metadata *)

\* directory (relative to the root, "" for the root itself) and file name
ProcessPaths == { << "", "a" >>, << "sub", "a" >> }
ScanPaths == ProcessPaths \cup { << "sub", "b" >> }
LastModified == { "t1", "t2" }
Hashes == { "h1", "h2" }
\* FileMetadata.metadata: the (key, value) pairs read from the file
MetadataSets == { {}, { << "title", "x" >> }, { << "title", "y" >>, << "artist", "z" >> } }

notScanVars == << pipelineVars, storeVars, analyzerVars, overlapVars, playlistVars,
                 coverVars >>

\* filter(Directory.eq(..)).filter(FileName.eq(..)).one(db): the id of a row
\* of the file, 0 for None
FindFile(rows, directory, file_name) ==
    IF \E id \in DOMAIN rows :
           rows[id].directory = directory /\ rows[id].file_name = file_name
    THEN CHOOSE id \in DOMAIN rows :
           rows[id].directory = directory /\ rows[id].file_name = file_name
    ELSE 0

\* last_insert_id of an insert into rows
NextId(rows) ==
    IF DOMAIN rows = {} THEN 1
    ELSE 1 + CHOOSE x \in DOMAIN rows : \A y \in DOMAIN rows : y <= x

\* a table with one row more
WithRow(rows, id, row) ==
    [i \in DOMAIN rows \cup { id } |-> IF i = id THEN row ELSE rows[i]]

\* the hashes taken for different whatever they are
HashUnchangedNever(old, new) == FALSE

\* existing_file.file_hash == new_hash
HashUnchanged(old, new) == old = new

\* the branch process_file takes
Branch(rows, d) ==
    LET id == FindFile(rows, d.directory, d.file_name)
    IN  IF id = 0 THEN "insert"
        ELSE IF rows[id].last_modified = d.last_modified THEN "skip"
        ELSE IF HashUnchanged(rows[id].file_hash, d.file_hash) THEN "touch"
        ELSE "update"

\* the database writes of a call, in their order: insert_new_file writes the
\* file, then its metadata; update_last_modified writes the file;
\* update_file_metadata writes the file, deletes its metadata, inserts the new
Writes(rows, d) ==
    CASE Branch(rows, d) = "insert" -> << "insert_file", "insert_metadata" >>
      [] Branch(rows, d) = "skip" -> << >>
      [] Branch(rows, d) = "touch" -> << "update_last_modified" >>
      [] Branch(rows, d) = "update" ->
            << "update_file", "delete_metadata", "insert_metadata" >>

\* one write on the tables t = [files, metadata] for the file with this id
Apply(t, w, id, d, metadata) ==
    CASE w = "insert_file" ->
            [t EXCEPT !.files = WithRow(@, id, [directory |-> d.directory,
                                                file_name |-> d.file_name,
                                                file_hash |-> d.file_hash,
                                                last_modified |-> d.last_modified])]
      [] w = "update_last_modified" ->
            [t EXCEPT !.files[id].last_modified = d.last_modified]
      [] w = "update_file" ->
            [t EXCEPT !.files[id].last_modified = d.last_modified,
                      !.files[id].file_hash = d.file_hash]
      [] w = "delete_metadata" ->
            [t EXCEPT !.metadata = { r \in @ : r.file_id # id }]
      [] w = "insert_metadata" ->
            [t EXCEPT !.metadata =
                @ \cup { [file_id |-> id, meta_key |-> kv[1], meta_value |-> kv[2]] :
                             kv \in metadata }]

\* the tables after the first n writes
RECURSIVE ApplyAll(_, _, _, _, _, _)
ApplyAll(t, ws, n, id, d, metadata) ==
    IF n = 0 THEN t
    ELSE ApplyAll(Apply(t, Head(ws), id, d, metadata), Tail(ws), n - 1, id, d, metadata)

\* the id of the row a call works on
TargetId(rows, d) ==
    IF FindFile(rows, d.directory, d.file_name) = 0 THEN NextId(rows)
    ELSE FindFile(rows, d.directory, d.file_name)

Descriptions ==
    [directory : { p[1] : p \in ProcessPaths }, file_name : { p[2] : p \in ProcessPaths },
     file_hash : Hashes, last_modified : LastModified]

\* process_file, every database call doing its work. insert_many is given
\* an empty list when the file has no metadata: it inserts nothing and may
\* report that as an error, after all the writes of the call.
ProcessFile(d, metadata) ==
    /\ << d.directory, d.file_name >> \in ProcessPaths
    /\ LET t0 == [files |-> file_rows, metadata |-> metadata_rows]
           ws == Writes(file_rows, d)
           t1 == ApplyAll(t0, ws, Len(ws), TargetId(file_rows, d), d, metadata)
       IN  /\ file_rows' = t1.files
           /\ metadata_rows' = t1.metadata
           /\ \E result \in IF metadata = {} /\ ws # << >> /\ ws[Len(ws)] = "insert_metadata"
                            THEN { "Ok", "Err" } ELSE { "Ok" } :
                  scan_call' = [op |-> "process_file", description |-> d,
                                metadata |-> metadata, branch |-> Branch(file_rows, d),
                                complete |-> TRUE, result |-> result]
    /\ UNCHANGED << disk, notScanVars >>

\* process_file with a database call that fails after n of its writes: the
\* error is returned with ? and the writes made so far stay
ProcessFileFail(d, metadata, n) ==
    /\ << d.directory, d.file_name >> \in ProcessPaths
    /\ LET t0 == [files |-> file_rows, metadata |-> metadata_rows]
           ws == Writes(file_rows, d)
       IN  /\ n < Len(ws)
           /\ LET t1 == ApplyAll(t0, ws, n, TargetId(file_rows, d), d, metadata)
              IN  /\ file_rows' = t1.files
                  /\ metadata_rows' = t1.metadata
           /\ scan_call' = [op |-> "process_file", description |-> d,
                            metadata |-> metadata, branch |-> Branch(file_rows, d),
                            complete |-> FALSE, result |-> "Err"]
    /\ UNCHANGED << disk, notScanVars >>

ScanInit ==
    /\ media_files = {} /\ corrupt = {}
    /\ media_analysis = NoRows /\ store0 = NoRows
    /\ PipelineIdle
    /\ analysis_rows = << >>
    /\ inserted_ids = {}
    /\ AggIdle
    /\ AnalyzerIdle
    /\ AppIdle

ScanNext ==
    \/ \E d \in Descriptions, metadata \in MetadataSets : ProcessFile(d, metadata)
    \/ \E d \in Descriptions, metadata \in MetadataSets, n \in 0..2 :
           ProcessFileFail(d, metadata, n)

ScanSpec == ScanInit /\ [][ScanNext]_vars

----------------------------------------------------------------------------
(* clean_up_database *)

\* root_path.join(PathBuf::from(&db_file.file_name)).exists()
FullPathExists(files_on_disk, row) == << "", row.file_name >> \in files_on_disk

\* clean_up_database, every delete succeeding: the records whose full_path
\* does not exist are deleted
CleanUpDatabase ==
    /\ file_rows' = [id \in { i \in DOMAIN file_rows : FullPathExists(disk, file_rows[i]) }
                        |-> file_rows[id]]
    /\ scan_call' = [op |-> "clean_up_database",
                     before |-> [files |-> file_rows, metadata |-> metadata_rows],
                     complete |-> TRUE, result |-> "Ok"]
    /\ UNCHANGED << metadata_rows, disk, notScanVars >>

\* clean_up_database with a delete that fails: the records before it in the
\* order of their ids are done, the others are kept
CleanUpDatabaseFail(failing) ==
    /\ failing \in DOMAIN file_rows
    /\ ~FullPathExists(disk, file_rows[failing])
    /\ file_rows' = [id \in { i \in DOMAIN file_rows :
                                 i >= failing \/ FullPathExists(disk, file_rows[i]) }
                        |-> file_rows[id]]
    /\ scan_call' = [op |-> "clean_up_database",
                     before |-> [files |-> file_rows, metadata |-> metadata_rows],
                     complete |-> FALSE, result |-> "Err"]
    /\ UNCHANGED << metadata_rows, disk, notScanVars >>

\* the records a scan left, one per file it saw, and the files now on the disk
CleanUpInit ==
    /\ media_files = {} /\ corrupt = {}
    /\ media_analysis = NoRows /\ store0 = NoRows
    /\ PipelineIdle
    /\ analysis_rows = << >>
    /\ inserted_ids = {}
    /\ AggIdle
    /\ AnalyzerIdle
    /\ OverlapIdle /\ PlaylistIdle /\ CoverIdle
    /\ \E recorded \in SUBSET ScanPaths :
           \E ids \in [recorded -> 1..Cardinality(recorded)] :
               /\ \A p, q \in recorded : ids[p] = ids[q] => p = q
               /\ file_rows = [id \in 1..Cardinality(recorded) |->
                                 LET p == CHOOSE q \in recorded : ids[q] = id
                                 IN  [directory |-> p[1], file_name |-> p[2],
                                      file_hash |-> "h1", last_modified |-> "t1"]]
    /\ metadata_rows = {}
    /\ disk \in SUBSET (ScanPaths \cup { << "", "b" >> })
    /\ scan_call = [op |-> "none"]

CleanUpNext ==
    \/ CleanUpDatabase
    \/ \E failing \in 1..Cardinality(ScanPaths) : CleanUpDatabaseFail(failing)

CleanUpSpec == CleanUpInit /\ [][CleanUpNext]_vars

----------------------------------------------------------------------------
(* Properties *)

Returned == run_state = "returned"

\* the files without a row when the current run started, ascending
Todo == media_files \ DistinctFileIds(store0)
TodoSeq == Ascending(Todo)

\* rows of file f added by the current run
Added(f) == media_analysis[f] - store0[f]

Count(s, x) == Cardinality({ i \in 1..Len(s) : s[i] = x })

\* the run added exactly one row for every file of S and none for any other file
AddedExactly(S) == \A f \in FileIds : Added(f) = IF f \in S THEN 1 ELSE 0

\* no database call of the current run has failed
NoStoreFailure == producer_result # "Err" /\ consumer_result # "Err"

\* the k-th batch the consumer formed from the spawned tasks (the last may be partial)
Batch(k) == SubSeq(spawned, (k - 1) * batch_size + 1, Min(k * batch_size, Len(spawned)))
NumBatches == (Len(spawned) + batch_size - 1) \div batch_size

\* the files of the first k full batches of the run
FirstBatches(k) == Range(SubSeq(TodoSeq, 1, Min(k * batch_size, Len(TodoSeq))))

\* C1: an uncancelled run without analysis or store failures adds exactly one row
\* for every file that had none, whatever the batch size.
C1_AllUnfeaturedInserted ==
    (Returned /\ run_result.tag = "Ok" /\ ~cancel_token /\ Todo \cap corrupt = {})
        => AddedExactly(Todo)

\* C2: when the consumer saw the cancellation with tasks in flight, every
\* successful result among them has its row when the run has returned.
C2_InFlightFlushedOnCancel ==
    (Returned /\ seen_cancel)
        => \A f \in observed \ corrupt : media_analysis[f] > 0

\* C3: once the token is cancelled (and no database call has failed) the run
\* has returned or can still take a step: it is never stuck before its return.
C3_CancelledRunReturns ==
    (cancel_token /\ NoStoreFailure) => (Returned \/ ENABLED RunStep)

\* C4: after a failed batch transaction the run is never stuck before its
\* return, it returns the error, and it commits nothing after the failure.
C4_TxnFailureReturnsError ==
    (consumer_result = "Err" /\ ~cancel_token)
        => /\ Returned \/ ENABLED RunStep
           /\ Returned => run_result.tag = "Err"
           /\ Len(flushed) = txn_failed[1].commits
           /\ media_analysis = txn_failed[1].before

\* C5: in every state each batch has either all the rows of its successfully
\* analysed files or none of them, and after a failed begin, insert or commit
\* the table is as it was before that transaction.
C5_BatchAtomic ==
    /\ run_state # "idle" =>
         \A k \in 1..NumBatches :
            LET good == Range(Batch(k)) \ corrupt
            IN  \/ \A f \in good : Added(f) = 1
                \/ \A f \in good : Added(f) = 0
    /\ txn_failed # << >> => media_analysis = txn_failed[1].before

\* C5 witness: a transaction failed after rows had been inserted in it, in a
\* run that had committed an earlier batch.
C5_Witness ==
    /\ txn_failed # << >>
    /\ txn_failed[1].pending # NoRows
    /\ txn_failed[1].commits >= 1

\* C6: after a first run that completed without cancellation, a second run
\* with the same batch size on the unchanged library inserts no row.
C6_SecondRunInsertsNothing ==
    (Returned /\ prev_run.completed /\ prev_run.batch_size = batch_size)
        => media_analysis = store0

\* C7 as stated: a cancelled run that committed K batches has added, when it
\* returns, exactly the rows of all the files of those K batches.
C7_CancelledKeepsWholeBatches ==
    (Returned /\ cancel_token) => AddedExactly(FirstBatches(Len(flushed)))

\* C7 amended: a cancelled run that committed K batches has added, when it
\* returns, exactly the rows of the successfully analysed files of those K
\* batches: none of a later batch, none of them missing.
C7_CancelledKeepsSuccessfulOfBatches ==
    (Returned /\ cancel_token) => AddedExactly(FirstBatches(Len(flushed)) \ corrupt)

\* C7 witness: a cancelled run returned after a commit, with a failed file in a
\* committed batch and files of later batches left without a row.
C7_Witness ==
    /\ Returned /\ cancel_token
    /\ Len(flushed) >= 1
    /\ FirstBatches(Len(flushed)) \cap corrupt # {}
    /\ Len(flushed) * batch_size < Len(TodoSeq)
    /\ \E f \in FileIds : Added(f) = 1

\* C8: an uncancelled run without store failures over files of which exactly
\* one fails its analysis returns success and adds the rows of all the others.
C8_OneCorruptFile ==
    (Returned /\ ~cancel_token /\ producer_result = "Ok" /\ consumer_result = "Ok"
              /\ Cardinality(Todo \cap corrupt) = 1)
        => /\ run_result.tag = "Ok"
           /\ AddedExactly(Todo \ corrupt)

\* C9: a failed analysis task never ends the consumer and never is the run's
\* result; the successful files of every committed batch have their rows, and
\* an uncancelled successful run has committed every full batch.
C9_FileFailureContained ==
    /\ consumer_result \in {"None", "Ok", "Err"}
    /\ run_result.tag \in {"None", "Ok", "Err"}
    /\ run_state # "idle" =>
         \A i \in 1..Len(flushed) : \A f \in Range(flushed[i]) \ corrupt : Added(f) = 1
    /\ (Returned /\ run_result.tag = "Ok" /\ ~cancel_token)
         => Len(flushed) = Len(TodoSeq) \div batch_size

\* C9 witness: a successful run committed a batch holding a failed and a
\* successful file, and a later batch after it.
C9_Witness ==
    /\ Returned /\ run_result.tag = "Ok"
    /\ Len(flushed) >= 2
    /\ Range(flushed[1]) \cap corrupt # {}
    /\ \E f \in Range(flushed[1]) \ corrupt : Added(f) = 1
    /\ \E f \in Range(flushed[2]) : Added(f) = 1

\* no file with a row at the start of the run is fetched, queued, analysed or inserted
OnlyTodoTouched ==
    run_state # "idle" =>
        /\ Range(files) \cup Range(queue) \cup Range(enqueued) \cup Range(spawned) \subseteq Todo
        /\ \A f \in FileIds \ Todo : Added(f) = 0 /\ txn[f] = 0

\* every file without a row at the start was queued once and given to one task
AllTodoDispatched ==
    \A f \in Todo : Count(enqueued, f) = 1 /\ Count(spawned, f) = 1

StrictlyIncreasing(s) == \A i \in 1..(Len(s) - 1) : s[i] < s[i + 1]

\* C11: the producer enqueues file identifiers in strictly increasing order,
\* none twice, and every page starts strictly after the last identifier of the
\* page before it.
C11_EnqueuedIncreasing ==
    run_state # "idle" =>
        /\ StrictlyIncreasing(enqueued)
        /\ \A f \in FileIds : Count(enqueued, f) <= 1
        /\ StrictlyIncreasing(files)
        /\ files # << >> =>
              /\ cursor < Head(files)
              /\ enqueued # << >> => enqueued[Len(enqueued)] < Head(files)
        /\ (ppc = "loop" /\ enqueued # << >>) => cursor = enqueued[Len(enqueued)]

\* C11 witness: a second page is being sent after a first page of two files.
C11_Witness ==
    /\ run_state = "running"
    /\ batch_size >= 2
    /\ cursor > 0
    /\ Len(enqueued) >= 3
    /\ files # << >>

\* C12: after any sequence of runs that do not overlap the table holds at most
\* one row per file identifier.
C12_AtMostOneRow == \A f \in FileIds : media_analysis[f] <= 1

\* C12 witness: a run that followed another run has returned after adding a
\* row to a table that already held rows.
C12_Witness ==
    /\ Returned
    /\ prev_run.completed
    /\ \E f \in FileIds : store0[f] = 1
    /\ \E f \in FileIds : Added(f) = 1

\* C13: a run only adds rows: every row the table held when the run started is
\* in the table in every later state of the run and after its return.
C13_RowsOnlyAdded ==
    run_state # "idle" => \A f \in FileIds : media_analysis[f] >= store0[f]

\* C13 witness: a run has committed rows to a table that held rows at its start.
C13_Witness ==
    /\ run_state # "idle"
    /\ \E f \in FileIds : store0[f] = 1
    /\ \E f \in FileIds : Added(f) = 1

\* C14: the channel never holds more than batch_size files, and while it holds
\* batch_size files the producer cannot send: it waits for the consumer.
C14_QueueBounded ==
    /\ Len(queue) <= batch_size
    /\ Len(queue) = batch_size => ~ENABLED ProducerSend

\* C14 witness: the producer has a file to send and the channel is full.
C14_Witness ==
    /\ run_state = "running"
    /\ batch_size >= 2
    /\ ppc = "send"
    /\ Len(queue) = batch_size

\* C15: the tasks spawned and not yet finished are never more than batch_size.
C15_TasksBounded == Cardinality(running) <= batch_size

\* C15 witness: batch_size tasks, more than one, are running at once.
C15_Witness ==
    /\ batch_size >= 2
    /\ Cardinality(running) = batch_size

\* C16: the transaction of a batch is begun only when every task of the batch
\* has finished; while a transaction is open no task is running and no file
\* can be taken from the channel.
C16_TxnAfterTasks ==
    /\ cpc = "begin" => running = {} /\ Len(results) = task_count
    /\ txn_open =>
          /\ running = {} /\ tasks = << >>
          /\ ~ENABLED ConsumerRecvSpawn
          /\ ~ENABLED ConsumerRecvCancelled
          /\ ~ENABLED ConsumerRecvClosed

\* C16 witness: a transaction with an inserted row is open while a file waits
\* in the channel.
C16_Witness ==
    /\ txn_open
    /\ txn # NoRows
    /\ queue # << >>

\* a step of the producer: its position, its page or the files sent change
ProducerMoves ==
    /\ run_state = "running" /\ run_state' = "running"
    /\ ppc' # ppc \/ files' # files \/ enqueued' # enqueued \/ cursor' # cursor

\* C17: at most one transaction is open at any time, and no step of the
\* producer opens or closes one.
C17_OneWriteTxn ==
    [][ /\ open_txns <= 1 /\ open_txns' <= 1
        /\ txn_open <=> open_txns = 1
        /\ ProducerMoves => open_txns' = open_txns ]_vars

\* C17 witness: a second transaction of the run is open while the producer is
\* about to run a paging query.
C17_Witness ==
    /\ open_txns = 1
    /\ Len(flushed) >= 1
    /\ ppc = "loop" /\ ~cancel_token

\* C18: the progress callback has been invoked as many times as transactions
\* have been committed: once per committed batch and never otherwise.
C18_ProgressPerCommit == Len(progress) = Len(flushed)

\* C19: in all progress callbacks of a run the total is the number of files
\* counted at the start, and the processed count is strictly increasing and
\* never above the total.
C19_ProgressArgs ==
    \A i \in 1..Len(progress) :
        /\ progress[i][2] = Cardinality(media_files)
        /\ progress[i][1] <= progress[i][2]
        /\ progress[i][1] > (IF i = 1 THEN 0 ELSE progress[i - 1][1])

\* C19 witness: the callback was invoked three times in a run over a table
\* that already held a row.
C19_Witness ==
    /\ Len(progress) >= 3
    /\ \E f \in FileIds : store0[f] = 1

CursorExhausted ==
    /\ ppc = "done" /\ files = << >>
    /\ PageQuery(media_files, existed_ids, cursor, batch_size) = << >>

\* C21: without cancellation and without store errors every run eventually
\* returns, whatever the library size and the batch size; when it has returned
\* the producer has exhausted the cursor, the channel is empty and closed, and
\* no analysis task is running or waiting to be collected.
C21_UncancelledRunReturns ==
    /\ (run_state = "running") ~> Returned
    /\ [](Returned =>
            /\ run_result.tag = "Ok"
            /\ CursorExhausted
            /\ queue = << >> /\ tx_dropped
            /\ running = {} /\ tasks = << >>)

\* C21 witness: an uncancelled run over four files with batch size two, one of
\* them failing, has returned success after leaving tasks to its last block.
C21_Witness ==
    /\ Returned /\ ~cancel_token /\ run_result.tag = "Ok"
    /\ batch_size = 2
    /\ Len(spawned) >= 3
    /\ Len(flushed) * batch_size < Len(spawned)

\* the files of the committed batches, and those of the batch being written
Committed == UNION { Range(flushed[i]) : i \in 1..Len(flushed) }
CurrentBatch == Range(SubSeq(spawned, Len(spawned) - task_count + 1, Len(spawned)))
Pending == { results[i].id : i \in 1..Len(results) }

\* C22: the rows a run persists do not depend on the order in which the tasks
\* of a batch complete: in every state, over every completion order, the rows
\* added are those of the successfully analysed files of the committed
\* batches, the batches are the files in channel order, and the rows of the
\* open transaction are those of the successful files of its batch handled so far.
C22_StoreIndependentOfCompletionOrder ==
    run_state # "idle" =>
        /\ AddedExactly(Committed \ corrupt)
        /\ \A i \in 1..Len(flushed) : flushed[i] = Batch(i)
        /\ cpc = "insert" =>
              \A f \in FileIds :
                 txn[f] = IF f \in (CurrentBatch \ corrupt) \ Pending THEN 1 ELSE 0

\* C22 witness: in the second batch of a run the task of the later file
\* finished first: its row is in the open transaction while the result of the
\* earlier file is still to be handled.
C22_Witness ==
    /\ cpc = "insert"
    /\ Len(flushed) >= 1
    /\ \E f \in FileIds : Added(f) = 1
    /\ Len(results) = 1
    /\ \E g \in FileIds : g > results[1].id /\ txn[g] = 1

\* a step in which an analysis task finishes
TaskMoves == running' # running /\ running' \subseteq running

C24_FailedFileRetriedNextRun ==
    run_state # "idle" =>
        /\ \A f \in corrupt :
              /\ Count(enqueued, f) <= 1 /\ Count(spawned, f) <= 1
              /\ media_analysis[f] = 0 /\ txn[f] = 0
        /\ prev_run.completed =>
              /\ corrupt \cap existed_ids = {}
              /\ run_state = "running" => corrupt \subseteq Todo
              /\ (Returned /\ ~cancel_token /\ run_result.tag = "Ok") =>
                    \A f \in corrupt : Count(enqueued, f) = 1 /\ Count(spawned, f) = 1

\* C24 witness: the run after a completed run has returned success, and the
\* file that fails was again in a batch it committed, next to a file with a row.
C24_Witness ==
    /\ Returned /\ ~cancel_token /\ run_result.tag = "Ok"
    /\ prev_run.completed
    /\ Len(flushed) >= 1
    /\ Range(flushed[1]) \cap corrupt # {}
    /\ \E f \in Range(flushed[1]) : media_analysis[f] = 1

\* a step inside one run
InRun == run_state = "running" /\ run_state' = "running"

\* the ids of the tasks whose results wait to be collected
FinishedIds(fin) == { fin[i].id : i \in 1..Len(fin) }

\* C25: at the top of its loop with the token cancelled the producer fetches
\* no page, and once it has left its loop it fetches and enqueues nothing;
\* once the consumer has seen the cancellation it spawns no task and opens no
\* transaction; a running task leaves only by finishing with a result, and the
\* consumer ends only when every spawned task has finished.
C25_NothingStartedAfterCancelSeen ==
    [][ InRun =>
          /\ (ppc = "loop" /\ cancel_token) =>
                (ppc' = "loop" \/ (ppc' = "done" /\ tx_dropped' /\ producer_result' = "Ok"))
          /\ ppc = "done" =>
                /\ ppc' = "done" /\ enqueued' = enqueued /\ files' = files
                /\ cursor' = cursor /\ Len(queue') <= Len(queue)
          /\ seen_cancel =>
                /\ spawned' = spawned /\ tasks' \in {tasks, << >>}
                /\ ~txn_open' /\ open_txns' = 0 /\ flushed' = flushed
                /\ cpc' \in {"remaining", "done"}
          /\ \A f \in running \ running' :
                /\ Len(finished') = Len(finished) + 1
                /\ finished'[Len(finished')].id = f
          /\ (cpc = "remaining" /\ cpc' = "done") =>
                running = {} /\ FinishedIds(finished) = Range(tasks) ]_vars

\* C25 witness: after a commit the producer and the consumer have both seen
\* the cancellation, and the tasks in flight when the consumer saw it have
\* finished with their results kept.
C25_Witness ==
    /\ run_state = "running" /\ cancel_token
    /\ ppc = "done" /\ producer_result = "Ok"
    /\ seen_cancel /\ cpc = "remaining"
    /\ observed # {} /\ FinishedIds(finished) = observed
    /\ Len(flushed) >= 1

\* the number of descriptor columns of a group
ColumnsOf(name) == Cardinality({ a \in Axes : a[1] = name })

\* C26: every row written by insert_analysis_result has its file identifier
\* and all 61 descriptor columns non-null: the 12 scalars, 12 chroma, 24
\* perceptual loudness and 13 MFCC columns.
C26_InsertedRowPopulated ==
    /\ Cardinality(Axes) = 61
    /\ Cardinality(ScalarFields) = 12
    /\ ColumnsOf("chroma") = 12 /\ ColumnsOf("perceptual_loudness") = 24
    /\ ColumnsOf("mfcc") = 13
    /\ \A f \in inserted_ids :
          /\ f \in DOMAIN analysis_rows
          /\ \A a \in Axes : analysis_rows[f][a] # None

\* C26 witness: the table holds a row written by insert_analysis_result next to
\* a row of another origin with a NULL column.
C26_Witness ==
    \E f \in inserted_ids : \E g \in DOMAIN analysis_rows \ inserted_ids :
        /\ analysis_rows[f][<< "mfcc", 12 >>] # None
        /\ analysis_rows[g][<< "rms", 0 >>] = None

\* the loaded rows that are not NULL at axis a, and the sum of their values
Contributors(a) == { f \in file_ids \cap DOMAIN analysis_rows : analysis_rows[f][a] # None }
RECURSIVE SumAt(_, _)
SumAt(S, a) ==
    IF S = {} THEN 0
    ELSE LET f == CHOOSE x \in S : TRUE
         IN  analysis_rows[f][a][1] + SumAt(S \ {f}, a)

\* C27: for every axis with a contributing row the result is the sum of the
\* non-null values of the loaded rows at that axis divided by the number of
\* rows that are non-null there, whatever the other axes hold.
C27_MeanOverNonNull ==
    agg_pc = "done" =>
        \A a \in Axes :
            Contributors(a) # {} =>
                /\ agg_result[a][2] > 0
                /\ agg_result[a][1] * Cardinality(Contributors(a))
                      = SumAt(Contributors(a), a) * agg_result[a][2]

\* C27 witness: of two loaded rows one has rms = 2 and the other rms NULL, and
\* the mean of rms is 2; at another axis both rows count and the mean is a
\* half-integer.
C27_Witness ==
    /\ agg_pc = "done"
    /\ \E f, g \in file_ids \cap DOMAIN analysis_rows :
          /\ analysis_rows[f][<< "rms", 0 >>] = Some(2)
          /\ analysis_rows[g][<< "rms", 0 >>] = None
          /\ file_ids = {f, g}
    /\ agg_result[<< "rms", 0 >>] = << 2, 1 >>
    /\ \E a \in Axes : agg_result[a][2] = 2

\* C28: an axis without a contributing row is 0.0 in the result, whether the
\* identifier set is empty, no identifier has a row or every loaded row is
\* NULL there; no axis of a result is NaN or infinite, and the call, once its
\* rows are loaded, always can go on to its return.
C28_EmptyAxisIsZero ==
    /\ agg_pc = "done" =>
          \A a \in Axes :
              /\ Contributors(a) = {} => agg_result[a] = Zero
              /\ agg_result[a][2] # 0
    /\ agg_pc = "loop" => ENABLED (GetCentralizedProcess \/ GetCentralizedReturn)

\* C28 witness: rows were loaded, all of them NULL at rms, whose mean is 0.0,
\* while another axis has a mean that is not 0.
C28_Witness ==
    /\ agg_pc = "done"
    /\ file_ids \cap DOMAIN analysis_rows # {}
    /\ Contributors(<< "rms", 0 >>) = {}
    /\ agg_result[<< "rms", 0 >>] = Zero
    /\ \E a \in Axes : Contributors(a) # {} /\ agg_result[a][1] > 0

\* C30: a signal whose samples are all zero has rms, zcr, energy and every
\* spectral descriptor equal to 0, and none of them NaN or infinite.
C30_SilenceIsZero ==
    (an_pc = "done" /\ \A n \in 1..Len(pcm) : pcm[n] = 0) =>
        \A d \in Descriptors : raw[d] = Zero /\ raw[d][2] # 0

\* C30 witness: a silent signal of two frames has been analysed.
C30_Witness ==
    /\ an_pc = "done"
    /\ Len(pcm) >= WindowSize + HopSize
    /\ \A n \in 1..Len(pcm) : pcm[n] = 0
    /\ nframes = 2
    /\ raw["spectral_centroid"] = Zero /\ raw["rms"] = Zero

\* C31: once the token is cancelled the run commits at most one more batch
\* transaction: at every moment after the cancellation the number of committed
\* transactions exceeds the number at the cancellation by at most one.
C31_OneCommitAfterCancel ==
    cancel_token => Len(flushed) <= flushed_at_cancel + 1

\* C31 witness: a run returned that was cancelled after its first commit while
\* its second batch was being joined or written, and committed that batch.
C31_Witness ==
    /\ Returned /\ cancel_token
    /\ flushed_at_cancel = 1
    /\ Len(flushed) = 2

\* C32: after a failed paging query the channel is closed, the run is never
\* stuck before its return and returns the error; the rows present so far
\* are kept; and when the consumer was stopped neither by the token nor by a
\* failed transaction, every file queued before the failure was given to a
\* task and every full batch of them was committed, with the rows of its
\* successfully analysed files.
C32_PagingFailureDrains ==
    producer_result = "Err" =>
        /\ tx_dropped
        /\ Returned \/ ENABLED RunStep
        /\ Returned => run_result.tag = "Err"
        /\ \A f \in FileIds : media_analysis[f] >= store0[f]
        /\ AddedExactly(Committed \ corrupt)
        /\ (Returned /\ ~seen_cancel /\ consumer_result = "Ok") =>
               /\ spawned = enqueued
               /\ Len(flushed) = Len(enqueued) \div batch_size
               /\ \A i \in 1..Len(flushed) : flushed[i] = Batch(i)

\* C32 witness: the paging query has failed after a commit, with a file still
\* in the channel that the consumer has yet to receive.
C32_Witness ==
    /\ producer_result = "Err" /\ run_state = "running"
    /\ queue # << >>
    /\ Len(flushed) >= 1
    /\ \E f \in FileIds : Added(f) = 1

C34_OverlapAtMostOneRow ==
    \A f \in FileIds : media_analysis[f] <= 1

\* the entries appended to a playlist, as indices of appended
AppendedTo(playlist_id) ==
    { i \in 1..Len(appended) : appended[i].playlist_id = playlist_id }

\* C35: when the calls do not overlap, add_media_file_to_playlist gives the
\* new entry the position max + 1 over the positions its playlist holds, 1 for
\* a playlist without entries, whatever other playlists hold; the entries
\* appended to one playlist have strictly increasing positions.
C35_AppendedAtMaxPlusOne ==
    /\ \A i \in 1..Len(appended) :
           /\ appended[i].before = {} => appended[i].position = 1
           /\ appended[i].before # {} =>
                  /\ appended[i].position - 1 \in appended[i].before
                  /\ \A x \in appended[i].before : x < appended[i].position
    /\ \A p \in PlaylistIds : \A i, j \in AppendedTo(p) :
           i < j => appended[i].position < appended[j].position

\* C35 witness: two entries were appended to playlist 1, the first to the
\* empty playlist, while playlist 2 holds an entry with a higher position.
C35_Witness ==
    /\ NoCallInFlight
    /\ Cardinality(AppendedTo(1)) = 2
    /\ \E i \in AppendedTo(1) : appended[i].before = {}
    /\ \E x \in PositionsOf(playlist_entries, 2) :
           \A y \in PositionsOf(playlist_entries, 1) : y < x

\* C36: when two calls of add_media_file_to_playlist for one playlist
\* interleave, the entries they insert have distinct positions.
C36_InterleavedDistinct ==
    \A p \in PlaylistIds : \A i, j \in AppendedTo(p) :
        i # j => appended[i].position # appended[j].position

\* the tables after calls of get_cover_art: at most one row per file hash;
\* a file for which bytes were returned has the cover_art_id of a row with
\* those bytes, and was never given other bytes
CoverTablesConsistent ==
    /\ \A i, j \in 1..Len(media_cover_art) :
           media_cover_art[i].file_hash = media_cover_art[j].file_hash => i = j
    /\ \A f \in DOMAIN cover_files :
           /\ Cardinality(returned_bytes[f]) <= 1
           /\ returned_bytes[f] # {} =>
                  /\ cover_files[f].cover_art_id \in 1..Len(media_cover_art)
                  /\ returned_bytes[f] =
                         { media_cover_art[cover_files[f].cover_art_id].binary }
    /\ last_call.result = "Some" => last_call.file_id \in DOMAIN cover_files

\* a call for a file that has its cover_art_id already, or for a file id the
\* database does not know, writes nothing; the latter returns None
QuietCoverCall ==
    (last_call' # last_call /\
        (last_call'.linked \/ last_call'.file_id \notin DOMAIN cover_files))
        => /\ cover_files' = cover_files
           /\ media_cover_art' = media_cover_art
           /\ last_call'.file_id \notin DOMAIN cover_files =>
                  last_call'.result \in { "None", "Err" }

MetadataRowsOf(id, metadata) ==
    { [file_id |-> id, meta_key |-> kv[1], meta_value |-> kv[2]] : kv \in metadata }

\* the ids of the records of the file a description names
Known(d) ==
    { id \in DOMAIN file_rows :
          file_rows[id].directory = d.directory /\ file_rows[id].file_name = d.file_name }

\* the step of a call process_file(d, metadata) is one of the four transitions
FourTransitions(d, metadata) ==
    IF Known(d) = {}
    THEN \E new \in DOMAIN file_rows' \ DOMAIN file_rows :
             /\ DOMAIN file_rows' = DOMAIN file_rows \cup { new }
             /\ \A id \in DOMAIN file_rows : file_rows'[id] = file_rows[id]
             /\ file_rows'[new] = [directory |-> d.directory, file_name |-> d.file_name,
                                   file_hash |-> d.file_hash,
                                   last_modified |-> d.last_modified]
             /\ metadata_rows' = metadata_rows \cup MetadataRowsOf(new, metadata)
    ELSE \E id \in Known(d) :
             /\ Known(d) = { id }
             /\ DOMAIN file_rows' = DOMAIN file_rows
             /\ \A other \in DOMAIN file_rows \ { id } : file_rows'[other] = file_rows[other]
             /\ file_rows'[id].directory = d.directory
             /\ file_rows'[id].file_name = d.file_name
             /\ CASE file_rows[id].last_modified = d.last_modified ->
                        /\ file_rows'[id] = file_rows[id]
                        /\ metadata_rows' = metadata_rows
                  [] file_rows[id].last_modified # d.last_modified
                        /\ file_rows[id].file_hash = d.file_hash ->
                        /\ file_rows'[id].last_modified = d.last_modified
                        /\ file_rows'[id].file_hash = file_rows[id].file_hash
                        /\ metadata_rows' = metadata_rows
                  [] OTHER ->
                        /\ file_rows'[id].last_modified = d.last_modified
                        /\ file_rows'[id].file_hash = d.file_hash
                        /\ metadata_rows' =
                               { r \in metadata_rows : r.file_id # id }
                                   \cup MetadataRowsOf(id, metadata)

\* C38: a call of process_file that makes all its writes takes the one of
\* four transitions its file calls for: a file without record is inserted
\* with its metadata; a recorded file with the same last_modified causes no
\* write; one with another last_modified and the same hash gets its
\* last_modified set and nothing else; one with another hash gets
\* last_modified and hash set and its metadata rows replaced by the new ones.
\* No record of another file changes. A file processed once more with the
\* same description leaves the database as it is.
C38_FourTransitions ==
    [][ /\ (scan_call' # scan_call /\ scan_call'.op = "process_file"
               /\ scan_call'.complete)
              => FourTransitions(scan_call'.description, scan_call'.metadata)
        /\ (scan_call.op = "process_file" /\ scan_call.complete
               /\ scan_call'.op = "process_file"
               /\ scan_call'.description = scan_call.description)
              => file_rows' = file_rows /\ metadata_rows' = metadata_rows ]_vars

\* C38 witness: the last call found another hash for a recorded file that
\* had metadata and replaced it, while the other file keeps its record.
C38_Witness ==
    /\ scan_call.op = "process_file" /\ scan_call.complete
    /\ scan_call.branch = "update"
    /\ scan_call.metadata = { << "title", "x" >> }
    /\ Cardinality(DOMAIN file_rows) = 2
    /\ \E id \in Known(scan_call.description) :
           /\ { r \in metadata_rows : r.file_id = id }
                  = MetadataRowsOf(id, scan_call.metadata)
           /\ \E other \in DOMAIN file_rows \ { id } :
                  Cardinality({ r \in metadata_rows : r.file_id = other }) = 2

\* the file a record describes: root path joined with directory and file name
DescribedFileExists(files_on_disk, row) ==
    << row.directory, row.file_name >> \in files_on_disk

\* C39: after a call of clean_up_database that made all its deletes, the
\* records left are those, unchanged, whose described file (root path joined
\* with the record's directory and file name) exists: a record is deleted if
\* and only if its file no longer exists.
C39_DeletedIffFileGone ==
    (scan_call.op = "clean_up_database" /\ scan_call.complete)
        => file_rows = [id \in { i \in DOMAIN scan_call.before.files :
                                    DescribedFileExists(disk, scan_call.before.files[i]) }
                           |-> scan_call.before.files[id]]

====
